---- MODULE Spec2Model ----
(***************************************************************************)
(* A model of the Multimodal_RAG ingestion, retrieval and answer code:     *)
(*   src/ingestion/chunker.py        DocumentChunker                       *)
(*   src/ingestion/enricher.py       ContentEnricher                       *)
(*   src/ingestion/vector_manager.py VectorStoreManager                    *)
(*   src/ingestion/orchestrator.py   AgenticIngestionOrchestrator.run      *)
(*   src/api/endpoints.py            upload_documents, _process_bg         *)
(*   src/core/tools.py               OutputValidator, QueryAnalyzer,       *)
(*                                   VectorRetriever, Reranker             *)
(*   src/core/agent.py               StreamingRAGResponse, RetrievalAgent  *)
(*   src/services/llm_service.py     the retried LLM calls                 *)
(*   src/services/embedding_service.py the retried _embed_batch            *)
(*                                                                         *)
(* Python's None is the empty sequence and a present optional value v is   *)
(* the one-element sequence <<v>>.  Strings are TLA+ strings, built with   *)
(* \o and ToString the way the f-strings of the code build them.           *)
(***************************************************************************)
EXTENDS Integers, Sequences, FiniteSets, TLC

VARIABLES
    \* ---- chunker harness (DocumentChunker.create_chunks as a function)
    elements,        \* the element list handed to create_chunks
    enriched_data,   \* the enrichment map handed to create_chunks
    chunks,          \* <<>> before the call, <<result>> after it
    \* ---- ingestion (upload_documents, _process_bg, orchestrator.run)
    JOB_STATUSES,    \* endpoints.JOB_STATUSES: job id -> <<>> or <<entry>>
    orch,            \* per job: the locals of _process_bg and of run
    store,           \* the records held by the vector store collection
    loop,            \* the job whose coroutine holds the event loop, 0 if none
    corpus,          \* the element lists partition_pdf can return for the files
    \* ---- output validation (OutputValidator.normalize as a function)
    answer,          \* the generated answer, a sequence of text pieces
    source_docs,     \* image_path metadata of the source documents
    normalized,      \* <<>> before the call, <<result>> after it
    \* ---- answering (StreamingRAGResponse, RetrievalAgent.run)
    response_gen,    \* the fragments the token stream has still to yield
    full_response,   \* <<>>, or <<the text the stream has yielded>>
    final_response,  \* StreamingRAGResponse._final_response
    returned,        \* the "response" of every get_response call so far
    consumed,        \* how many times the token stream has been iterated
    stripped,        \* how many times the citation pattern has been applied
    query,           \* the query handed to RetrievalAgent.run
    agent,           \* the locals of RetrievalAgent.run
    searches,        \* the calls of VectorRetriever.retrieve, in order
    llm_stream,      \* the fragments the generation backend has still to emit
    delivered,       \* the fragments a consumer has taken from response_gen
    \* ---- a call of a function wrapped in tenacity's @retry
    call             \* the function, its attempts and how the call ended

vars == <<elements, enriched_data, chunks, JOB_STATUSES, orch, store, loop, corpus,
          answer, source_docs, normalized,
          response_gen, full_response, final_response, returned, consumed, stripped,
          query, agent, searches, llm_stream, delivered, call>>

chunkVars == <<elements, enriched_data, chunks>>
ingestVars == <<JOB_STATUSES, orch, store, loop, corpus>>
normVars == <<answer, source_docs, normalized>>
respVars == <<response_gen, full_response, final_response, returned, consumed,
             stripped>>
agentVars == <<query, agent, searches>>
streamVars == <<llm_stream, delivered>>
queryVars == <<respVars, agentVars, streamVars, call>>

None == <<>>
Some(v) == <<v>>

(***************************************************************************)
(* Bounds of the model.                                                    *)
(***************************************************************************)
MaxElems == 3            \* longest element list handed to create_chunks
MaxPiecesPerChunk == 2   \* text pieces that fit one splitter chunk
MaxJobs == 2             \* upload jobs in one behaviour
MaxAnswerLen == 6        \* pieces in a generated answer
MaxBodyLen == 3          \* pieces in the body of a streamed response
MaxCalls == 2            \* get_response calls on one StreamingRAGResponse
MaxTopK == 2             \* documents one similarity search returns
MaxQueryWords == 3       \* words and word parts a query is made of
MaxFragments == 3        \* fragments the generation backend streams an answer in

\* stop_after_attempt(3) of the three @retry decorators
StopAfterAttempt == 3

(***************************************************************************)
(* Paths.  A path is its directory, stem and extension; os.path.basename   *)
(* and os.path.splitext take it apart.                                     *)
(***************************************************************************)
PathString(p) == p.dir \o p.stem \o p.ext
Basename(p) == p.stem \o p.ext
DocId(p) == p.stem

(***************************************************************************)
(* Elements of the unstructured library.  Title, Table and Image are all   *)
(* subclasses of unstructured.documents.elements.Text, so                  *)
(* isinstance(element, (Text, Title)) holds of every one of these kinds.   *)
(***************************************************************************)
IsTitle(e) == e.kind = "Title"
IsTable(e) == e.kind = "Table"
IsImage(e) == e.kind = "Image"
\* a check that Table and Image elements would not pass
IsTextOrTitleOnly(e) == e.kind \in {"Text", "Title"}

IsTextOrTitle(e) == e.kind \in {"Text", "Title", "Table", "Image"}

\* `a or b` on optional page numbers: a when a is truthy (not None, not 0)
PageOr(a, b) == IF a # None /\ a[1] # 0 THEN a ELSE b

\* dict.get(key, default) on a function
DictGet(d, k, default) == IF k \in DOMAIN d THEN d[k] ELSE default

(***************************************************************************)
(* RecursiveCharacterTextSplitter.split_text on the "\n\n"-join of a page  *)
(* group: blank pieces vanish, the others are merged greedily, at most     *)
(* MaxPiecesPerChunk of them to a chunk.  Blank-only text gives no chunk.  *)
(***************************************************************************)
RECURSIVE NonBlank(_)
NonBlank(texts) ==
    IF texts = <<>> THEN <<>>
    ELSE IF Head(texts) = "" THEN NonBlank(Tail(texts))
    ELSE <<Head(texts)>> \o NonBlank(Tail(texts))

RECURSIVE JoinTexts(_)
JoinTexts(texts) ==
    IF texts = <<>> THEN ""
    ELSE IF Len(texts) = 1 THEN texts[1]
    ELSE texts[1] \o "\n\n" \o JoinTexts(Tail(texts))

RECURSIVE MergePieces(_)
MergePieces(pieces) ==
    IF pieces = <<>> THEN <<>>
    ELSE LET n == IF Len(pieces) < MaxPiecesPerChunk THEN Len(pieces)
                  ELSE MaxPiecesPerChunk
         IN <<JoinTexts(SubSeq(pieces, 1, n))>>
              \o MergePieces(SubSeq(pieces, n + 1, Len(pieces)))

split_text(texts) == MergePieces(NonBlank(texts))

(***************************************************************************)
(* DocumentChunker._create_metadata                                        *)
(***************************************************************************)
Capitalize(t) ==
    CASE t = "text" -> "Text" [] t = "image" -> "Image" [] t = "table" -> "Table"

ChunkIdNoIndex(doc_id, page, index) ==
    IF page # None THEN doc_id \o "_p" \o ToString(page[1]) ELSE doc_id

ChunkId(doc_id, page, index) ==
    IF page # None
    THEN doc_id \o "_p" \o ToString(page[1]) \o "_c" \o ToString(index)
    ELSE doc_id \o "_c" \o ToString(index)

FigureId(el_type, page, index) ==
    IF page # None /\ page[1] # 0
    THEN Capitalize(el_type) \o "_" \o ToString(page[1]) \o "_" \o ToString(index)
    ELSE Capitalize(el_type) \o "_" \o ToString(index)

create_metadata(doc_path, element, index, el_type, section, summary) ==
    LET page == element.page_number IN
    [ chunk_id |-> ChunkId(DocId(doc_path), page, index),
      document_metadata |->
          [file_path |-> PathString(doc_path), file_name |-> Basename(doc_path)],
      structural_metadata |->
          [page_number |-> page, section_heading |-> section,
           element_type |-> el_type],
      multimodal_metadata |->
          [figure_id |-> FigureId(el_type, page, index),
           summary |-> summary, modality |-> el_type,
           image_path |-> None, table_html |-> None],
      raw_content |-> summary ]

(***************************************************************************)
(* DocumentChunker.create_chunks.  The loop state is the record            *)
(* [chunks, text_buffer, current_section, chunk_index, current_page].      *)
(***************************************************************************)
\* the pages of the buffer in order of first occurrence (dict insertion order)
RECURSIVE PageOrder(_, _)
PageOrder(buf, seen) ==
    IF buf = <<>> THEN <<>>
    ELSE IF Head(buf).page \in seen THEN PageOrder(Tail(buf), seen)
    ELSE <<Head(buf).page>> \o PageOrder(Tail(buf), seen \cup {Head(buf).page})

RECURSIVE TextsOfPage(_, _)
TextsOfPage(buf, page) ==
    IF buf = <<>> THEN <<>>
    ELSE IF Head(buf).page = page
         THEN <<Head(buf).text>> \o TextsOfPage(Tail(buf), page)
         ELSE TextsOfPage(Tail(buf), page)

\* one text chunk per splitter output of one page group
RECURSIVE TextChunks(_, _, _, _, _, _)
TextChunks(doc_path, element, section, page, pieces, index) ==
    IF pieces = <<>> THEN <<>>
    ELSE LET meta == create_metadata(doc_path, element, index, "text", section, "")
             chunk == [meta EXCEPT !.structural_metadata.page_number = page,
                                   !.raw_content = Head(pieces)]
         IN <<chunk>> \o TextChunks(doc_path, element, section, page,
                                    Tail(pieces), index + 1)

\* the flush of the whole buffer: page group after page group
RECURSIVE FlushGroups(_, _, _, _, _, _)
FlushGroups(doc_path, element, section, buf, pages, index) ==
    IF pages = <<>> THEN <<>>
    ELSE LET new == TextChunks(doc_path, element, section, Head(pages),
                               split_text(TextsOfPage(buf, Head(pages))), index)
         IN new \o FlushGroups(doc_path, element, section, buf, Tail(pages),
                               index + Len(new))

MultimodalChunk(doc_path, element, index, section, enriched) ==
    LET summary == DictGet(enriched, element.id, "N/A") IN
    IF IsImage(element)
    THEN LET meta == create_metadata(doc_path, element, index, "image", section, summary)
         IN <<[meta EXCEPT !.multimodal_metadata.image_path = element.image_path]>>
    ELSE IF IsTable(element)
    THEN LET meta == create_metadata(doc_path, element, index, "table", section, summary)
         IN <<[meta EXCEPT !.multimodal_metadata.table_html = element.text_as_html]>>
    ELSE <<>>

ChunkerStep(doc_path, st, element, is_last, enriched) ==
    LET element_page == element.page_number
        section == IF IsTitle(element) THEN element.text ELSE st.current_section
        buffered == IsTextOrTitle(element)
        buf1 == IF buffered
                THEN Append(st.text_buffer,
                            [text |-> element.text,
                             page |-> PageOr(element_page, st.current_page)])
                ELSE st.text_buffer
        page1 == IF buffered THEN PageOr(element_page, st.current_page)
                 ELSE st.current_page
        flush == (~buffered) \/ is_last
        flushed == IF flush /\ buf1 # <<>>
                   THEN FlushGroups(doc_path, element, section, buf1,
                                    PageOrder(buf1, {}), st.chunk_index)
                   ELSE <<>>
        buf2 == IF flush /\ buf1 # <<>> THEN <<>> ELSE buf1
        index1 == st.chunk_index + Len(flushed)
        mm == MultimodalChunk(doc_path, element, index1, section, enriched)
    IN [ chunks |-> st.chunks \o flushed \o mm,
         text_buffer |-> buf2,
         current_section |-> section,
         chunk_index |-> index1 + Len(mm),
         current_page |-> page1 ]

RECURSIVE ChunkerLoop(_, _, _, _, _)
ChunkerLoop(doc_path, st, els, i, enriched) ==
    IF i > Len(els) THEN st
    ELSE ChunkerLoop(doc_path,
                     ChunkerStep(doc_path, st, els[i], i = Len(els), enriched),
                     els, i + 1, enriched)

create_chunks(doc_path, els, enriched) ==
    ChunkerLoop(doc_path,
                [chunks |-> <<>>, text_buffer |-> <<>>,
                 current_section |-> "Introduction", chunk_index |-> 0,
                 current_page |-> None],
                els, 1, enriched).chunks

(***************************************************************************)
(* The element lists and enrichment maps the chunker is exercised on.      *)
(***************************************************************************)
Pages == {None, <<1>>, <<2>>}

Element(id, kind, text, page, html, image) ==
    [id |-> id, kind |-> kind, text |-> text, page_number |-> page,
     text_as_html |-> html, image_path |-> image]

TextElements ==
    {Element("t", "Text", t, p, None, None) : t \in {"", "body"}, p \in Pages}
TitleElements ==
    {Element("h", "Title", t, p, None, None) : t \in {"H1", "H2"}, p \in {None, <<2>>}}
TableElements ==
    {Element(i, "Table", "cells", p, Some("<table " \o i \o ">"), None) :
        i \in {"e1", "e2"}, p \in {None, <<1>>}}
ImageElements ==
    {Element(i, "Image", "", p, None, Some("figures/" \o i \o ".jpg")) :
        i \in {"e1", "e2"}, p \in {None, <<2>>}}
Elements == TextElements \cup TitleElements \cup TableElements \cup ImageElements

ElementLists == UNION {[1..n -> Elements] : n \in 0..MaxElems}

EnrichMaps ==
    { <<>>, [i \in {"e1"} |-> "S1"],
      [i \in {"e1", "e2"} |-> IF i = "e1" THEN "S1" ELSE "S2"] }

ChunkerDocPath == [dir |-> "data/uploads/0a1b2c3d/", stem |-> "report", ext |-> ".pdf"]

(***************************************************************************)
(* Chunker harness: create_chunks applied to any bounded input.            *)
(***************************************************************************)
\* the parts of the state a harness does not use
ChunkIdle == elements = <<>> /\ enriched_data = <<>> /\ chunks = None
IngestIdle ==
    JOB_STATUSES = <<>> /\ orch = <<>> /\ store = <<>> /\ loop = 0 /\ corpus = {}
NormIdle == answer = <<>> /\ source_docs = <<>> /\ normalized = None
RespIdle ==
    /\ response_gen = <<>> /\ full_response = None /\ final_response = None
    /\ returned = <<>> /\ consumed = 0 /\ stripped = 0
AgentIdle == query = <<>> /\ agent = <<>> /\ searches = <<>>
StreamIdle == llm_stream = <<>> /\ delivered = <<>>
QueryIdle == RespIdle /\ AgentIdle /\ StreamIdle /\ call = <<>>

InitChunk ==
    /\ elements \in ElementLists
    /\ enriched_data \in EnrichMaps
    /\ chunks = None
    /\ IngestIdle
    /\ NormIdle
    /\ QueryIdle

CallCreateChunks ==
    /\ chunks = None
    /\ chunks' = Some(create_chunks(ChunkerDocPath, elements, enriched_data))
    /\ UNCHANGED <<elements, enriched_data, ingestVars, normVars, queryVars>>

NextChunk == CallCreateChunks

SpecChunk == InitChunk /\ [][NextChunk]_vars

(***************************************************************************)
(* ContentEnricher.  A task is one _enrich_table / _enrich_image coroutine *)
(* of enrich_elements; ok says whether its LLM call (after the retries of  *)
(* llm_service) returned or raised.                                        *)
(***************************************************************************)
generate_text(table_html) == "summary of " \o table_html
generate_image_caption(image_path) == "caption of " \o image_path

enrich_table_wrong_key(element, ok) ==
    IF element.text_as_html = None THEN <<element.id, "N/A">>
    ELSE IF ok THEN <<element.id, generate_text(element.text_as_html[1])>>
    ELSE <<element.text_as_html[1], "Failed to generate summary.">>

enrich_table(element, ok) ==
    IF element.text_as_html = None THEN <<element.id, "N/A">>
    ELSE IF ok THEN <<element.id, generate_text(element.text_as_html[1])>>
    ELSE <<element.id, "Failed to generate summary.">>

enrich_image(element, ok) ==
    IF element.image_path = None THEN <<element.id, "N/A">>
    ELSE IF ok THEN <<element.id, generate_image_caption(element.image_path[1])>>
    ELSE <<element.id, "Failed to generate caption.">>

\* whether the coroutine reaches its LLM call at all
CallsLLM(element) ==
    IF IsTable(element) THEN element.text_as_html # None
    ELSE element.image_path # None

\* a tasks list that would leave the images out
RECURSIVE CreateTasksTablesOnly(_)
CreateTasksTablesOnly(els) ==
    IF els = <<>> THEN <<>>
    ELSE IF IsTable(Head(els))
         THEN <<[element |-> Head(els), done |-> FALSE, failed |-> FALSE,
                 result |-> None]>> \o CreateTasksTablesOnly(Tail(els))
         ELSE CreateTasksTablesOnly(Tail(els))

\* the tasks list of enrich_elements: one task per Table and per Image
RECURSIVE CreateTasks(_)
CreateTasks(els) ==
    IF els = <<>> THEN <<>>
    ELSE IF IsTable(Head(els)) \/ IsImage(Head(els))
         THEN <<[element |-> Head(els), done |-> FALSE, failed |-> FALSE,
                 result |-> None]>> \o CreateTasks(Tail(els))
         ELSE CreateTasks(Tail(els))

\* {element_id: content for element_id, content in results}: later pairs win
RECURSIVE DictOfResults(_)
DictOfResults(tasks) ==
    IF tasks = <<>> THEN <<>>
    ELSE LET rest == DictOfResults(SubSeq(tasks, 1, Len(tasks) - 1))
             last == tasks[Len(tasks)].result[1]
         IN [k \in DOMAIN rest \cup {last[1]} |->
                IF k = last[1] THEN last[2] ELSE rest[k]]

(***************************************************************************)
(* VectorStoreManager                                                      *)
(***************************************************************************)
\* a merge in which the keys of a would win
DictMergeKeepFirst(a, b) ==
    [k \in DOMAIN a \cup DOMAIN b |-> IF k \in DOMAIN a THEN a[k] ELSE b[k]]

\* {**a, **b}: the keys of b win
DictMerge(a, b) ==
    [k \in DOMAIN a \cup DOMAIN b |-> IF k \in DOMAIN b THEN b[k] ELSE a[k]]

DictPop(d, keys) == [k \in DOMAIN d \ keys |-> d[k]]

FlatMetadata(chunk) ==
    DictPop(
        DictMerge(DictMerge(DictMerge(chunk.document_metadata,
                                      chunk.structural_metadata),
                            chunk.multimodal_metadata),
                  [chunk_id |-> chunk.chunk_id]),
        {"document_metadata", "structural_metadata", "multimodal_metadata"})

\* the Documents of add_chunks with their fresh uuid4 ids; n ids are taken
\* from a counter, the ids given out so far being 1..base
RECURSIVE LangchainDocs(_, _)
LangchainDocs(document_chunks, base) ==
    IF document_chunks = <<>> THEN <<>>
    ELSE <<[id |-> base + 1,
            page_content |-> Head(document_chunks).raw_content,
            metadata |-> FlatMetadata(Head(document_chunks))]>>
         \o LangchainDocs(Tail(document_chunks), base + 1)

\* a store that would key its points by chunk_id: a chunk written again
\* replaces the point of the same file that has its chunk_id
add_chunks_by_chunk_id(points, document_chunks) ==
    LET docs == LangchainDocs(document_chunks, Len(points))
        replaced(p) == \E i \in DOMAIN docs :
                          /\ docs[i].metadata.chunk_id = p.metadata.chunk_id
                          /\ docs[i].metadata.file_path = p.metadata.file_path
    IN SelectSeq(points, LAMBDA p : ~replaced(p)) \o docs

\* add_chunks: nothing for no chunks, else add_documents under fresh uuid4
\* ids; the points the collection holds afterwards
add_chunks(points, document_chunks) ==
    IF document_chunks = <<>> THEN points
    ELSE points \o LangchainDocs(document_chunks, Len(points))

\* client.scroll with the filter file_name == file_path, limit 1
StoreHasFileName(file_path) ==
    \E i \in DOMAIN store : store[i].metadata.file_name = PathString(file_path)

\* an existence check that would answer True when the scroll raises
is_document_processed_or_failed(file_path, backend_ok) ==
    IF backend_ok THEN StoreHasFileName(file_path) ELSE TRUE

is_document_processed(file_path, backend_ok) ==
    IF backend_ok THEN StoreHasFileName(file_path) ELSE FALSE

(***************************************************************************)
(* The documents the extractor can return, and the paths of the runs.      *)
(* upload_documents saves under <cwd>/data/uploads/<sha8>/; a path without *)
(* a directory is a direct use of the orchestrator on a file of the        *)
(* working directory.                                                      *)
(***************************************************************************)
Paths ==
    { [dir |-> "", stem |-> "a", ext |-> ".pdf"],
      [dir |-> "data/uploads/0a1b2c3d/", stem |-> "a", ext |-> ".pdf"] }

TableOf(i, html) == Element(i, "Table", "", <<1>>, html, None)
ImageOf(i, image) == Element(i, "Image", "", <<2>>, None, image)

Documents ==
    { <<Element("t", "Text", "body", <<1>>, None, None)>>,
      <<Element("t", "Text", "", None, None, None)>>,
      <<Element("h", "Title", "H1", <<1>>, None, None),
        TableOf("e1", Some("<table 1>")), ImageOf("e2", Some("figures/2.jpg"))>>,
      <<TableOf("e1", None), ImageOf("e2", Some("figures/2.jpg"))>>,
      <<TableOf("e1", Some("<table 1>")), ImageOf("e2", Some("figures/2.jpg")),
        TableOf("e3", Some("<table 3>"))>>,
      <<TableOf("e1", Some("<table 1>")), TableOf("e1", Some("<table 1b>"))>> }

\* the documents of the runs that follow one another and interleave
FewDocuments ==
    { <<Element("t", "Text", "", None, None, None)>>,
      <<Element("h", "Title", "H1", <<1>>, None, None),
        TableOf("e1", Some("<table 1>"))>> }

\* PDFExtractor.extract: the elements of the document, or [] when
\* partition_pdf raises or finds nothing
ExtractResults == corpus \cup {<<>>}

Jobs == DOMAIN orch

IdleRun ==
    [ pc |-> "idle", doc_path |-> None, state |-> "NOT_STARTED",
      raw_elements |-> <<>>, tasks |-> <<>>, enriched_data |-> <<>>,
      document_chunks |-> <<>>, was_processed |-> "not returned",
      progress |-> <<>>,
      \* history of the run, kept for the properties:
      writes |-> 0,            \* add_documents calls the run has made
      extracted |-> FALSE,     \* extractor.extract() has returned
      check_ok |-> FALSE,      \* the scroll of the duplicate check answered
      ran_after |-> {} ]       \* the jobs whose run had ended when it began

\* the collection outlives the server process: it starts empty, or with
\* the records an earlier ingestion of the file a.pdf of the working
\* directory has left in it
EarlierPath == [dir |-> "", stem |-> "a", ext |-> ".pdf"]
EarlierStore ==
    LangchainDocs(create_chunks(EarlierPath,
                                <<Element("t", "Text", "body", <<1>>, None, None)>>,
                                <<>>), 0)

InitIngest(job_ids, documents, stores) ==
    /\ JOB_STATUSES = [j \in job_ids |-> None]
    /\ orch = [j \in job_ids |-> IdleRun]
    /\ store \in stores
    /\ loop = 0
    /\ corpus = documents
    /\ ChunkIdle
    /\ NormIdle
    /\ QueryIdle

\* up to MaxJobs uploads, one after another or interleaved, into a
\* collection that is empty or holds the earlier ingestion
Init == InitIngest(1..MaxJobs, FewDocuments, {<<>>, EarlierStore})

\* a single upload, of any of the documents, into a collection that is
\* empty or holds the earlier ingestion
InitRun == InitIngest({1}, Documents, {<<>>, EarlierStore})

(***************************************************************************)
(* add_chunks harness: add_chunks applied to the chunk lists create_chunks  *)
(* returns and to chunk dictionaries whose metadata groups share keys.     *)
(***************************************************************************)
MetadataKeys == {"file_name", "page_number", "summary", "chunk_id"}

MetadataGroup(group, keys) == [k \in keys |-> group \o "." \o k]

ChunkDicts ==
    { [ chunk_id |-> "report_p1_c0",
        document_metadata |-> MetadataGroup("document", d),
        structural_metadata |-> MetadataGroup("structural", t),
        multimodal_metadata |-> MetadataGroup("multimodal", m),
        raw_content |-> "body" ] :
      d \in SUBSET MetadataKeys, t \in SUBSET MetadataKeys, m \in SUBSET MetadataKeys }

ChunkLists ==
    {<<c>> : c \in ChunkDicts}
        \cup {create_chunks(ChunkerDocPath, d, <<>>) : d \in Documents}

InitAdd ==
    /\ chunks \in {Some(l) : l \in ChunkLists}
    /\ elements = <<>> /\ enriched_data = <<>>
    /\ IngestIdle
    /\ NormIdle
    /\ QueryIdle

CallAddChunks ==
    /\ chunks # None
    /\ store = <<>>
    /\ store' = add_chunks(store, chunks[1])
    /\ UNCHANGED <<chunkVars, JOB_STATUSES, orch, loop, corpus, normVars, queryVars>>

NextAdd == CallAddChunks

SpecAdd == InitAdd /\ [][NextAdd]_vars

(***************************************************************************)
(* Progress reporting: update_progress of run appends to the sequence of   *)
(* calls the callback has seen; progress_callback of _process_bg copies    *)
(* the call into the job's JOB_STATUSES entry when the job is in the map.  *)
(***************************************************************************)
update_progress(o, step, progress) ==
    [o EXCEPT !.progress = Append(@, [step |-> step, progress |-> progress])]

progress_callback(statuses, job_id, step, progress) ==
    IF statuses[job_id] # None
    THEN [statuses EXCEPT ![job_id] =
            Some([@[1] EXCEPT !.job_id = job_id,
                              !.progress = ToString(progress),
                              !.current_step = step])]
    ELSE statuses

\* dict.update of the status, progress and current_step of an entry
StatusUpdate(statuses, job_id, status, progress, current_step) ==
    [statuses EXCEPT ![job_id] =
        Some([@[1] EXCEPT !.job_id = job_id, !.status = status,
                          !.progress = progress,
                          !.current_step = current_step])]

\* Python truth of the value run returned
Truthy(v) == v = "True"

(***************************************************************************)
(* upload_documents: a job id is drawn, the QUEUED entry is written and    *)
(* _process_bg is scheduled.                                               *)
(***************************************************************************)
upload_documents(j, path) ==
    /\ loop = 0
    /\ orch[j].pc = "idle"
    /\ \A k \in Jobs : k < j => orch[k].pc # "idle"
    /\ JOB_STATUSES' = [JOB_STATUSES EXCEPT ![j] =
          Some([job_id |-> j, status |-> "QUEUED", file_name |-> Basename(path),
                progress |-> "0", current_step |-> "Queued for processing"])]
    /\ orch' = [orch EXCEPT ![j].pc = "queued", ![j].doc_path = Some(path)]
    /\ UNCHANGED <<store, loop, corpus, chunkVars, normVars, queryVars>>

(***************************************************************************)
(* _process_bg up to the call of orchestrator.run                          *)
(***************************************************************************)
process_bg_start(j) ==
    /\ loop = 0
    /\ orch[j].pc = "queued"
    /\ JOB_STATUSES' = [JOB_STATUSES EXCEPT ![j] =
          Some([job_id |-> j, status |-> "PROCESSING",
                file_name |-> Basename(orch[j].doc_path[1]),
                progress |-> "10", current_step |-> "Checking for duplicates"])]
    /\ orch' = [orch EXCEPT ![j].pc = "run"]
    /\ loop' = j
    /\ UNCHANGED <<store, corpus, chunkVars, normVars, queryVars>>

(***************************************************************************)
(* AgenticIngestionOrchestrator.run, step by step                          *)
(***************************************************************************)
run_begin(j) ==
    /\ loop = j
    /\ orch[j].pc = "run"
    /\ orch' = [orch EXCEPT ![j] =
          [update_progress(@, "Checking for duplicates", 10) EXCEPT
              !.pc = "duplicate_check", !.state = "DUPLICATE_CHECK",
              !.ran_after = {k \in Jobs : orch[k].pc \in {"sleeping", "finished"}}]]
    /\ JOB_STATUSES' = progress_callback(JOB_STATUSES, j, "Checking for duplicates", 10)
    /\ UNCHANGED <<store, loop, corpus, chunkVars, normVars, queryVars>>

\* a duplicate branch that would warn and go on with the extraction
SkipDuplicateGoesOn(o, backend_ok) ==
    [update_progress(o, "Document already exists in database", 100)
     EXCEPT !.pc = "extract", !.state = "SKIPPED_DUPLICATE",
            !.check_ok = backend_ok]

\* the duplicate branch: the last progress report, then `return False`
SkipDuplicate(o, backend_ok) ==
    [update_progress(o, "Document already exists in database", 100)
     EXCEPT !.pc = "returned", !.state = "SKIPPED_DUPLICATE",
            !.check_ok = backend_ok, !.was_processed = "False"]

run_duplicate_check(j, backend_ok) ==
    /\ loop = j
    /\ orch[j].pc = "duplicate_check"
    /\ IF is_document_processed(orch[j].doc_path[1], backend_ok)
       THEN /\ orch' = [orch EXCEPT ![j] = SkipDuplicate(@, backend_ok)]
            /\ JOB_STATUSES' = progress_callback(JOB_STATUSES, j,
                                  "Document already exists in database", 100)
       ELSE /\ orch' = [orch EXCEPT ![j] =
                  [update_progress(
                      update_progress(@, "Document is new, starting processing", 15),
                      "Extracting document content", 20)
                   EXCEPT !.pc = "extract", !.state = "EXTRACTING",
                          !.check_ok = backend_ok]]
            /\ JOB_STATUSES' = progress_callback(JOB_STATUSES, j,
                                  "Extracting document content", 20)
    /\ UNCHANGED <<store, loop, corpus, chunkVars, normVars, queryVars>>

\* `if not raw_elements`
NoElementsNever(raw_elements) == FALSE

NoElements(raw_elements) == raw_elements = <<>>

\* the two update_progress calls between extraction and enrichment
NotifyExtractedLow(o) ==
    update_progress(update_progress(o, "Content extraction complete", 10),
                    "Enriching document content", 50)

NotifyExtracted(o) ==
    update_progress(update_progress(o, "Content extraction complete", 40),
                    "Enriching document content", 50)

\* extract, then the launch of the enrichment tasks; with tasks to await the
\* coroutine suspends in asyncio.gather and gives up the event loop
run_extract(j, raw_elements) ==
    /\ loop = j
    /\ orch[j].pc = "extract"
    /\ IF NoElements(raw_elements)
       THEN /\ orch' = [orch EXCEPT ![j].raw_elements = raw_elements,
                                    ![j].extracted = TRUE,
                                    ![j].pc = "returned",
                                    ![j].state = "FAILED_NO_ELEMENTS",
                                    ![j].was_processed = "False"]
            /\ UNCHANGED <<JOB_STATUSES, loop>>
       ELSE /\ orch' = [orch EXCEPT ![j] =
                  [NotifyExtracted(@)
                   EXCEPT !.raw_elements = raw_elements,
                          !.extracted = TRUE,
                          !.tasks = CreateTasks(raw_elements),
                          !.pc = "enrich", !.state = "ENRICHING"]]
            /\ JOB_STATUSES' = progress_callback(JOB_STATUSES, j,
                                  "Enriching document content", 50)
            /\ loop' = IF CreateTasks(raw_elements) = <<>> THEN j ELSE 0
    /\ UNCHANGED <<store, corpus, chunkVars, normVars, queryVars>>

\* one _enrich_table / _enrich_image task runs to its return
enrich_task(j, i, ok) ==
    /\ loop = 0
    /\ orch[j].pc = "enrich"
    /\ i \in DOMAIN orch[j].tasks
    /\ ~orch[j].tasks[i].done
    /\ LET element == orch[j].tasks[i].element
           result == IF IsTable(element) THEN enrich_table(element, ok)
                     ELSE enrich_image(element, ok)
       IN orch' = [orch EXCEPT ![j].tasks[i] =
              [@ EXCEPT !.done = TRUE,
                        !.failed = CallsLLM(element) /\ ~ok,
                        !.result = Some(result)]]
    /\ UNCHANGED <<JOB_STATUSES, store, loop, corpus, chunkVars, normVars, queryVars>>

\* enrich_elements returns (at once when there is no task, else when gather
\* has every result) and run goes on to the chunking step
run_enriched(j) ==
    /\ orch[j].pc = "enrich"
    /\ loop = IF orch[j].tasks = <<>> THEN j ELSE 0
    /\ \A i \in DOMAIN orch[j].tasks : orch[j].tasks[i].done
    /\ orch' = [orch EXCEPT ![j] =
          [update_progress(
              update_progress(@, "Content enrichment complete", 70),
              "Chunking document content", 75)
           EXCEPT !.enriched_data = DictOfResults(orch[j].tasks),
                  !.pc = "chunk", !.state = "CHUNKING"]]
    /\ JOB_STATUSES' = progress_callback(JOB_STATUSES, j,
                          "Chunking document content", 75)
    /\ loop' = j
    /\ UNCHANGED <<store, corpus, chunkVars, normVars, queryVars>>

run_chunk(j) ==
    /\ loop = j
    /\ orch[j].pc = "chunk"
    /\ LET document_chunks == create_chunks(orch[j].doc_path[1],
                                  orch[j].raw_elements, orch[j].enriched_data)
       IN IF document_chunks = <<>>
          THEN /\ orch' = [orch EXCEPT ![j].pc = "returned",
                                       ![j].state = "FAILED_NO_CHUNKS",
                                       ![j].was_processed = "False"]
               /\ UNCHANGED JOB_STATUSES
          ELSE /\ orch' = [orch EXCEPT ![j] =
                     [update_progress(
                         update_progress(@, "Content chunking complete", 85),
                         "Loading chunks into vector database", 90)
                      EXCEPT !.document_chunks = document_chunks,
                             !.pc = "load", !.state = "LOADING"]]
               /\ JOB_STATUSES' = progress_callback(JOB_STATUSES, j,
                                     "Loading chunks into vector database", 90)
    /\ UNCHANGED <<store, loop, corpus, chunkVars, normVars, queryVars>>

\* add_chunks, then the end of run.  The function ends without a return
\* statement, so the caller receives None.  When the embedding or the
\* upsert fails (its retries exhausted) the exception leaves run.
run_load(j, backend_ok) ==
    /\ loop = j
    /\ orch[j].pc = "load"
    /\ IF backend_ok
       THEN /\ store' = add_chunks(store, orch[j].document_chunks)
            /\ orch' = [orch EXCEPT ![j] =
                  [update_progress(@, "Document processing complete", 100)
                   EXCEPT !.pc = "returned", !.state = "DONE",
                          !.writes = @ + 1, !.was_processed = "None"]]
            /\ JOB_STATUSES' = progress_callback(JOB_STATUSES, j,
                                  "Document processing complete", 100)
       ELSE /\ orch' = [orch EXCEPT ![j].pc = "raised"]
            /\ UNCHANGED <<store, JOB_STATUSES>>
    /\ UNCHANGED <<loop, corpus, chunkVars, normVars, queryVars>>

(***************************************************************************)
(* _process_bg after run: the final status, the sleep and the removal      *)
(***************************************************************************)
\* run has returned or raised: its locals and the orchestrator are dropped;
\* of the run only the state it ended in and its result stay on record
AfterRun(o, pc) ==
    [IdleRun EXCEPT !.pc = pc, !.doc_path = o.doc_path, !.state = o.state,
                    !.was_processed = o.was_processed, !.writes = o.writes]

process_bg_result(j) ==
    /\ loop = j
    /\ orch[j].pc = "returned"
    /\ JOB_STATUSES' =
          IF Truthy(orch[j].was_processed)
          THEN StatusUpdate(JOB_STATUSES, j, "SUCCESS", "100",
                            "Document successfully processed")
          ELSE StatusUpdate(JOB_STATUSES, j, "DUPLICATE", "100",
                            "Document already exists in database")
    /\ orch' = [orch EXCEPT ![j] = AfterRun(@, "sleeping")]
    /\ loop' = 0
    /\ UNCHANGED <<store, corpus, chunkVars, normVars, queryVars>>

process_bg_except(j) ==
    /\ loop = j
    /\ orch[j].pc = "raised"
    /\ JOB_STATUSES' =
          IF JOB_STATUSES[j] # None
          THEN StatusUpdate(JOB_STATUSES, j, "FAILED", "0",
                            "Error: vector store write failed")
          ELSE JOB_STATUSES
    /\ orch' = [orch EXCEPT ![j] = AfterRun(@, IF JOB_STATUSES[j] # None
                                                THEN "sleeping" ELSE "finished")]
    /\ loop' = 0
    /\ UNCHANGED <<store, corpus, chunkVars, normVars, queryVars>>

\* after asyncio.sleep(60): the entry is deleted if it still holds the
\* status this branch of _process_bg wrote, and _process_bg ends: nothing
\* of the job is left in the process
\* the status the branch of _process_bg that is sleeping has written
BranchStatus(o) ==
    IF o.was_processed = "not returned" THEN "FAILED"
    ELSE IF Truthy(o.was_processed) THEN "SUCCESS"
    ELSE "DUPLICATE"

\* a removal that would never take place
DeleteEntryNever(statuses, job_id, status) == statuses

\* if job_id in JOB_STATUSES and JOB_STATUSES[job_id]["status"] == status:
\*     del JOB_STATUSES[job_id]
DeleteEntry(statuses, job_id, status) ==
    IF statuses[job_id] # None /\ statuses[job_id][1].status = status
    THEN [statuses EXCEPT ![job_id] = None]
    ELSE statuses

process_bg_evict(j) ==
    /\ loop = 0
    /\ orch[j].pc = "sleeping"
    /\ JOB_STATUSES' = DeleteEntry(JOB_STATUSES, j, BranchStatus(orch[j]))
    /\ orch' = [orch EXCEPT ![j] = [IdleRun EXCEPT !.pc = "finished"]]
    /\ UNCHANGED <<store, loop, corpus, chunkVars, normVars, queryVars>>

Next ==
    \/ \E j \in Jobs, path \in Paths : upload_documents(j, path)
    \/ \E j \in Jobs : process_bg_start(j)
    \/ \E j \in Jobs : run_begin(j)
    \/ \E j \in Jobs, backend_ok \in BOOLEAN : run_duplicate_check(j, backend_ok)
    \/ \E j \in Jobs, raw_elements \in ExtractResults : run_extract(j, raw_elements)
    \/ \E j \in Jobs, i \in 1..3, ok \in BOOLEAN : enrich_task(j, i, ok)
    \/ \E j \in Jobs : run_enriched(j)
    \/ \E j \in Jobs : run_chunk(j)
    \/ \E j \in Jobs, backend_ok \in BOOLEAN : run_load(j, backend_ok)
    \/ \E j \in Jobs : process_bg_result(j)
    \/ \E j \in Jobs : process_bg_except(j)
    \/ \E j \in Jobs : process_bg_evict(j)

Spec == Init /\ [][Next]_vars

SpecRun == InitRun /\ [][Next]_vars

(***************************************************************************)
(* OutputValidator.  A text is a sequence of pieces, each a non-empty      *)
(* string with no "[" after its first character and no "]" unless it is    *)
(* the piece "]"; the text itself is the concatenation of its pieces.      *)
(* The marker prefix "[IMAGE:" is one piece, or the two pieces "[IMA" and  *)
(* "GE:" when a text has it split.  " " is the only whitespace piece.      *)
(***************************************************************************)
RECURSIVE Concat(_)
Concat(pieces) == IF pieces = <<>> THEN "" ELSE Head(pieces) \o Concat(Tail(pieces))

\* str.strip()
RECURSIVE LStrip(_)
LStrip(pieces) ==
    IF pieces # <<>> /\ Head(pieces) = " " THEN LStrip(Tail(pieces)) ELSE pieces

RECURSIVE RStrip(_)
RStrip(pieces) ==
    IF pieces # <<>> /\ pieces[Len(pieces)] = " "
    THEN RStrip(SubSeq(pieces, 1, Len(pieces) - 1)) ELSE pieces

Strip(pieces) == RStrip(LStrip(pieces))

\* the number of pieces the literal "[IMAGE:" of IMAGE_TAG_RE takes at i, or 0
PrefixAt(text, i) ==
    IF i <= Len(text) /\ text[i] = "[IMAGE:" THEN 1
    ELSE IF i + 1 <= Len(text) /\ text[i] = "[IMA" /\ text[i + 1] = "GE:" THEN 2
    ELSE 0

\* the first position from i on that holds "]", or Len(text) + 1
RECURSIVE NextClose(_, _)
NextClose(text, i) ==
    IF i > Len(text) \/ text[i] = "]" THEN i ELSE NextClose(text, i + 1)

\* IMAGE_TAG_RE matches at i: the prefix, then ([^\]]+), then "]".
\* MatchEnd is the position of the closing "]", or 0 when there is no match.
MatchEnd(text, i) ==
    LET w == PrefixAt(text, i)
        close == NextClose(text, i + w)
    IN IF w > 0 /\ close <= Len(text) /\ close > i + w THEN close ELSE 0

MatchGroup1(text, i) == SubSeq(text, i + PrefixAt(text, i), MatchEnd(text, i) - 1)

\* _get_allowed_paths: the stripped image_path of every document that has a
\* truthy one (sorted(set(...)) is used for membership only)
get_allowed_paths(docs) ==
    { Concat(Strip(docs[d][1])) : d \in {k \in DOMAIN docs :
                                          docs[k] # None /\ docs[k][1] # <<>>} }

\* repl of normalize, and the lambda-free "" replacement of the empty case
ReplNoStrip(group1, allowed_paths) ==
    IF Concat(group1) \in allowed_paths
    THEN <<"[IMAGE:">> \o group1 \o <<"]">>
    ELSE <<>>

Repl(group1, allowed_paths) ==
    LET raw_path == Strip(group1) IN
    IF Concat(raw_path) \in allowed_paths
    THEN <<"[IMAGE:">> \o raw_path \o <<"]">>
    ELSE <<>>

\* IMAGE_TAG_RE.sub: the matches are taken leftmost first and do not overlap
RECURSIVE Sub(_, _, _)
Sub(text, i, allowed_paths) ==
    IF i > Len(text) THEN <<>>
    ELSE IF MatchEnd(text, i) > 0
    THEN (IF allowed_paths = {} THEN <<>>
          ELSE Repl(MatchGroup1(text, i), allowed_paths))
         \o Sub(text, MatchEnd(text, i) + 1, allowed_paths)
    ELSE <<text[i]>> \o Sub(text, i + 1, allowed_paths)

normalize(text, docs) == Sub(text, 1, get_allowed_paths(docs))

(***************************************************************************)
(* Validator harness: normalize applied to any bounded answer.             *)
(***************************************************************************)
AnswerPieces == {"[IMAGE:", "]", "a.png", "b.png", " "}

Answers == UNION {[1..n -> AnswerPieces] : n \in 0..MaxAnswerLen}

\* the image_path metadata of the source documents: None for a text or
\* table chunk, the path of the figure for an image chunk
SourceDocLists ==
    { <<>>, <<None>>, <<Some(<<"a.png">>)>>,
      <<Some(<<"a.png">>), None, Some(<<"b.png">>)>> }

\* answers in which a marker stands inside the "[IMAGE:" of another
NestedAnswers ==
    { <<"[IMA", "[IMAGE:", inner, "]", "GE:", outer, "]">> :
        inner \in {"a.png", "b.png"}, outer \in {"a.png", "b.png"} }

InitNorm ==
    /\ answer \in Answers \cup NestedAnswers
    /\ source_docs \in SourceDocLists
    /\ normalized = None
    /\ ChunkIdle
    /\ IngestIdle
    /\ QueryIdle

CallNormalize ==
    /\ normalized = None
    /\ normalized' = Some(normalize(answer, source_docs))
    /\ UNCHANGED <<answer, source_docs, chunkVars, ingestVars, queryVars>>

NextNorm == CallNormalize

SpecNorm == InitNorm /\ [][NextNorm]_vars

(***************************************************************************)
(* StreamingRAGResponse (src/core/agent.py).  A text is the sequence of    *)
(* the pieces it is made of, as for the validator; here the pieces are     *)
(* words, brackets, the colon and the two whitespace pieces " " and "\n".  *)
(* No piece holds part of a word of a pattern, so a match of a pattern     *)
(* begins and ends between pieces.                                         *)
(***************************************************************************)
IsSpacePiece(p) == p \in {" ", "\n"}                   \* \s
SourcesWords == {"Sources", "sources"}                 \* Sources, IGNORECASE
SourceWords == {"Source"}                              \* Source, IGNORECASE
HasSource(p) == p \in SourcesWords \cup SourceWords    \* contains "source"
IsDigits(p) == p \in {"1"}                             \* \d+
SeeWords == {"see"}
PRefs == {"p. 2"}                                      \* p\.\s*\d+
PageRefs == {"page 2"}                                 \* page\s*\d+
FileRefs == {"a.pdf"}                                  \* \.(pdf|docx?|pptx?)
\* the piece begins and ends with a word character (for \b)
IsWordPiece(p) == p \notin {" ", "\n", "[", "]", "(", ")", ":", ","}

\* str.strip() of a text that may hold newlines
RECURSIVE LStripWs(_)
LStripWs(pieces) ==
    IF pieces # <<>> /\ IsSpacePiece(Head(pieces)) THEN LStripWs(Tail(pieces))
    ELSE pieces

RECURSIVE RStripWs(_)
RStripWs(pieces) ==
    IF pieces # <<>> /\ IsSpacePiece(pieces[Len(pieces)])
    THEN RStripWs(SubSeq(pieces, 1, Len(pieces) - 1)) ELSE pieces

StripWs(pieces) == RStripWs(LStripWs(pieces))

\* \s*: the first position from i on that holds no whitespace
RECURSIVE SkipSpace(_, _)
SkipSpace(text, i) ==
    IF i <= Len(text) /\ IsSpacePiece(text[i]) THEN SkipSpace(text, i + 1) ELSE i

\* \d+: the first position from i on that holds no digits
RECURSIVE SkipDigits(_, _)
SkipDigits(text, i) ==
    IF i <= Len(text) /\ IsDigits(text[i]) THEN SkipDigits(text, i + 1) ELSE i

\* .*? up to a piece of the set: its first position from i on before the
\* end of the line, or 0
RECURSIVE NextOnLine(_, _, _)
NextOnLine(text, i, set) ==
    IF i > Len(text) \/ text[i] = "\n" THEN 0
    ELSE IF text[i] \in set THEN i
    ELSE NextOnLine(text, i + 1, set)

\* [^\n]*: the last position of the line that position i is on
RECURSIVE LineEnd(_, _)
LineEnd(text, i) ==
    IF i > Len(text) \/ text[i] = "\n" THEN i - 1 ELSE LineEnd(text, i + 1)

\* r'(\n\s*Sources\b)' matches at i
SourcesHeadAt(text, i) ==
    LET j == SkipSpace(text, i + 1) IN
    /\ i <= Len(text) /\ text[i] = "\n"
    /\ j <= Len(text) /\ text[j] \in SourcesWords
    /\ (j = Len(text) \/ ~IsWordPiece(text[j + 1]))

\* re.split(..., maxsplit=1): where the leftmost match begins, or 0
SplitPoint(text) ==
    LET at == {i \in 1..Len(text) : SourcesHeadAt(text, i)}
    IN IF at = {} THEN 0 ELSE CHOOSE i \in at : \A k \in at : i <= k

\* [^)]*\): the first ")" from i on, or 0
RECURSIVE NextParen(_, _)
NextParen(text, i) ==
    IF i > Len(text) THEN 0
    ELSE IF text[i] = ")" THEN i
    ELSE NextParen(text, i + 1)

\* <open>.*?source.*?<close> at s: the position of the closing piece, or 0
BracketedSourceEnd(text, s, open, close) ==
    LET m == NextOnLine(text, s + 1, SourcesWords \cup SourceWords) IN
    IF s <= Len(text) /\ text[s] = open /\ m > 0
    THEN NextOnLine(text, m + 1, {close}) ELSE 0

\* \[\d+\] at s
NumberEnd(text, s) ==
    LET k == SkipDigits(text, s + 1) IN
    IF s <= Len(text) /\ text[s] = "[" /\ k > s + 1 /\ k <= Len(text) /\ text[k] = "]"
    THEN k ELSE 0

\* \(see.*?\) at s
SeeEnd(text, s) ==
    IF s + 1 <= Len(text) /\ text[s] = "(" /\ text[s + 1] \in SeeWords
    THEN NextOnLine(text, s + 2, {")"}) ELSE 0

\* \(sources\) at s
LiteralSourcesEnd(text, s) ==
    IF s + 2 <= Len(text) /\ text[s] = "(" /\ text[s + 1] \in SourcesWords
       /\ text[s + 2] = ")"
    THEN s + 2 ELSE 0

\* \([^)]*<ref>[^)]*\) at s, the reference being a piece of refs
ParenRefEnd(text, s, refs) ==
    LET c == NextParen(text, s + 1) IN
    IF s <= Len(text) /\ text[s] = "(" /\ c > 0
       /\ \E k \in (s + 1)..(c - 1) : text[k] \in refs
    THEN c ELSE 0

\* \bSources?:[^\n]* at s
SourcesLineEnd(text, s) ==
    IF /\ s + 1 <= Len(text)
       /\ text[s] \in SourcesWords \cup SourceWords
       /\ (s = 1 \/ ~IsWordPiece(text[s - 1]))
       /\ text[s + 1] = ":"
    THEN LineEnd(text, s + 2) ELSE 0

\* the group of citation_pattern at s: the alternatives are tried in the
\* order they are written; the position the match ends at, or 0
FirstNonZero(ends) ==
    LET hits == {k \in DOMAIN ends : ends[k] > 0}
    IN IF hits = {} THEN 0
       ELSE ends[CHOOSE k \in hits : \A h \in hits : k <= h]

citation_pattern(text, s) ==
    FirstNonZero(<< BracketedSourceEnd(text, s, "[", "]"),
                    BracketedSourceEnd(text, s, "(", ")"),
                    NumberEnd(text, s),
                    SeeEnd(text, s),
                    LiteralSourcesEnd(text, s),
                    ParenRefEnd(text, s, PRefs),
                    ParenRefEnd(text, s, PageRefs),
                    ParenRefEnd(text, s, FileRefs),
                    SourcesLineEnd(text, s) >>)

\* citation_pattern.sub('', text) from position p on: \s* takes the
\* whitespace before the group; matches are leftmost and do not overlap
RECURSIVE CitationSub(_, _)
CitationSub(text, p) ==
    IF p > Len(text) THEN <<>>
    ELSE LET e == citation_pattern(text, SkipSpace(text, p)) IN
         IF e > 0 THEN CitationSub(text, e + 1)
         ELSE <<text[p]>> \o CitationSub(text, p + 1)

\* the body of "if self._final_response is None": the text get_response
\* memoizes for the full response the stream has yielded
clean_response(text) ==
    LET at == SplitPoint(text)
        answer_part == IF at = 0 THEN text
                       ELSE SubSeq(text, 1, at - 1)
        sources_part == IF at = 0 THEN <<>>
                        ELSE SubSeq(text, at, Len(text))
        cleaned_answer == StripWs(CitationSub(answer_part, 1))
    IN IF sources_part # <<>>
       THEN cleaned_answer \o <<"\n", "\n">> \o StripWs(sources_part)
       ELSE cleaned_answer

\* "if self._final_response is None"
NotYetBuiltFalsy(final) == final = None \/ final[1] = <<>>

NotYetBuilt(final) == final = None

(***************************************************************************)
(* Response harness: a StreamingRAGResponse over any bounded token stream, *)
(* and get_response called on it up to MaxCalls times.                     *)
(***************************************************************************)
RespPieces == {"\n", " ", "[", "]", "(", ")", ":", "Sources", "Source", "1", "x"}

AnswerBodies == UNION {[1..n -> RespPieces] : n \in 0..MaxBodyLen}

\* what may follow the body: nothing, or a Sources section
SourcesSections ==
    { <<>>,
      <<"\n", "Sources", ":", " ", "a.pdf", " ", "(", "page 2", ")">>,
      <<"\n", "\n", " ", "sources", "\n", "[", "1", "]", " ", "[", "Source", "]", "\n">> }

\* answers with the citation shapes the free bodies do not reach
CitedAnswers ==
    { <<"x", " ", "(", "see", " ", "x", ")", " ", "x">>,
      <<"x", " ", "(", "a.pdf", ",", " ", "p. 2", ")">>,
      <<"x", "(", "x", "\n", "page 2", ")", "(", "sources", ")">>,
      <<"x", " ", "(", "x", " ", "a.pdf", ")", "\n", "x">>,
      <<"[", "Source", "\n", "[", "1", "]", "]">> }

Streams ==
    {body \o section : body \in AnswerBodies \cup CitedAnswers,
                       section \in SourcesSections}

InitResp ==
    /\ response_gen \in Streams
    /\ full_response = None
    /\ final_response = None
    /\ returned = <<>>
    /\ consumed = 0
    /\ stripped = 0
    /\ ChunkIdle
    /\ IngestIdle
    /\ NormIdle
    /\ AgentIdle
    /\ StreamIdle
    /\ call = <<>>

\* get_response: list(self.response_gen) runs the stream to its end, the
\* join makes the full response of the fragments
get_response ==
    /\ Len(returned) < MaxCalls
    /\ IF NotYetBuilt(final_response)
       THEN /\ full_response' = Some(response_gen)
            /\ response_gen' = <<>>
            /\ final_response' = Some(clean_response(full_response'[1]))
            /\ consumed' = consumed + 1
            /\ stripped' = stripped + 1
       ELSE UNCHANGED <<full_response, response_gen, final_response, consumed,
                        stripped>>
    /\ returned' = Append(returned, final_response'[1])
    /\ UNCHANGED <<chunkVars, ingestVars, normVars, agentVars, streamVars, call>>

NextResp == get_response

SpecResp == InitResp /\ [][NextResp]_vars

(***************************************************************************)
(* The chain of RetrievalAgent.run: prompt | llm | StrOutputParser() |      *)
(* RunnableLambda(normalize).  The backend streams the answer in           *)
(* fragments, each a sequence of pieces; the parser hands every fragment   *)
(* on; a RunnableLambda in a stream adds up all of its input and calls its *)
(* function once, on the sum, when the input has ended, and yields the     *)
(* result as one fragment.  Here `answer` is the sum so far and            *)
(* `normalized` the result of the call.                                    *)
(***************************************************************************)
\* the fragments text falls into when it is cut after the positions of cuts
RECURSIVE Split(_, _, _)
Split(text, cuts, from) ==
    IF cuts = {} THEN <<SubSeq(text, from, Len(text))>>
    ELSE LET c == CHOOSE x \in cuts : \A y \in cuts : x <= y
         IN <<SubSeq(text, from, c)>> \o Split(text, cuts \ {c}, c + 1)

Splits(text) ==
    { Split(text, cuts, 1) :
        cuts \in {c \in SUBSET (1..(Len(text) - 1)) : Cardinality(c) < MaxFragments} }

StreamedAnswers ==
    { <<" ", "[IMA", "GE:", path, "]", tail>> :
        path \in {"a.png", "b.png"}, tail \in {" ", "]"} }
    \cup { <<"[IMAGE:", first, "]", "[IMA", "GE:", " ", second, "]">> :
              first \in {"a.png", "b.png"}, second \in {"a.png", "b.png"} }

LLMStreams == UNION {Splits(text) : text \in StreamedAnswers}

\* a sum that would keep the last fragment only
AccumulateLast(final, ichunk) == ichunk

\* final = final + ichunk
Accumulate(final, ichunk) == final \o ichunk

InitChain ==
    /\ llm_stream \in {[fragments |-> f, next |-> 1] : f \in LLMStreams}
    /\ source_docs \in SourceDocLists
    /\ answer = <<>>
    /\ normalized = None
    /\ delivered = <<>>
    /\ RespIdle
    /\ AgentIdle
    /\ call = <<>>
    /\ ChunkIdle
    /\ IngestIdle

\* the backend emits its next fragment and the RunnableLambda adds it up
llm_emit ==
    /\ llm_stream # <<>>
    /\ llm_stream.next <= Len(llm_stream.fragments)
    /\ answer' = Accumulate(answer, llm_stream.fragments[llm_stream.next])
    /\ llm_stream' = [llm_stream EXCEPT !.next = @ + 1]
    /\ UNCHANGED <<source_docs, normalized, delivered, chunkVars, ingestVars,
                   respVars, agentVars, call>>

\* the input has ended: the lambda of run is called on the sum and its
\* result is the one fragment of response_gen
lambda_call ==
    /\ llm_stream # <<>>
    /\ llm_stream.next > Len(llm_stream.fragments)
    /\ normalized = None
    /\ normalized' = Some(normalize(answer, source_docs))
    /\ response_gen' = <<Concat(normalized'[1])>>
    /\ UNCHANGED <<answer, source_docs, streamVars, chunkVars, ingestVars,
                   full_response, final_response, returned, consumed, stripped,
                   agentVars, call>>

\* an iteration that would leave the fragment it takes in response_gen
iterate_response_gen_again ==
    /\ response_gen # <<>>
    /\ delivered' = Append(delivered, Head(response_gen))
    /\ UNCHANGED <<response_gen, llm_stream, normVars, chunkVars, ingestVars,
                   full_response, final_response, returned, consumed, stripped,
                   agentVars, call>>

\* `for token in response.response_gen` of the streaming endpoints: the
\* consumer takes the next fragment
iterate_response_gen ==
    /\ response_gen # <<>>
    /\ delivered' = Append(delivered, Head(response_gen))
    /\ response_gen' = Tail(response_gen)
    /\ UNCHANGED <<llm_stream, normVars, chunkVars, ingestVars,
                   full_response, final_response, returned, consumed, stripped,
                   agentVars, call>>

NextChain == llm_emit \/ lambda_call \/ iterate_response_gen

SpecChain == InitChain /\ [][NextChain]_vars

(***************************************************************************)
(* A StreamingRAGResponse consumed in both ways: fragments are taken from  *)
(* response_gen one by one, and get_response is called.                    *)
(***************************************************************************)
RawStreams ==
    {body \o section : body \in CitedAnswers, section \in SourcesSections}

InitRaw ==
    /\ response_gen \in RawStreams
    /\ full_response = None
    /\ final_response = None
    /\ returned = <<>>
    /\ consumed = 0
    /\ stripped = 0
    /\ StreamIdle
    /\ ChunkIdle
    /\ IngestIdle
    /\ NormIdle
    /\ AgentIdle
    /\ call = <<>>

NextRaw == iterate_response_gen \/ get_response

SpecRaw == InitRaw /\ [][NextRaw]_vars

(***************************************************************************)
(* QueryAnalyzer (src/core/tools.py).  A query is the sequence of its      *)
(* characters.                                                             *)
(***************************************************************************)
UpperChars == <<"A", "B", "C", "D", "E", "F", "G", "H", "I", "J", "K", "L", "M",
                "N", "O", "P", "Q", "R", "S", "T", "U", "V", "W", "X", "Y", "Z">>
LowerChars == <<"a", "b", "c", "d", "e", "f", "g", "h", "i", "j", "k", "l", "m",
                "n", "o", "p", "q", "r", "s", "t", "u", "v", "w", "x", "y", "z">>

\* str.lower()
LowerChar(c) ==
    IF \E i \in DOMAIN UpperChars : UpperChars[i] = c
    THEN LowerChars[CHOOSE i \in DOMAIN UpperChars : UpperChars[i] = c]
    ELSE c

lower(chars) == [i \in DOMAIN chars |-> LowerChar(chars[i])]

\* "word" in q_lower
Contains(chars, word) ==
    \E i \in 1..(Len(chars) - Len(word) + 1) :
        SubSeq(chars, i, i + Len(word) - 1) = word

q_lower(chars) == lower(chars)

\* mutant of analyze: the table keywords are looked for first
analyze_table_first(query_chars) ==
    LET q == q_lower(query_chars) IN
    IF \/ Contains(q, <<"t", "a", "b", "l", "e">>)
       \/ Contains(q, <<"g", "r", "i", "d">>)
       \/ Contains(q, <<"d", "a", "t", "a">>)
    THEN Some("table")
    ELSE IF \/ Contains(q, <<"i", "m", "a", "g", "e">>)
            \/ Contains(q, <<"f", "i", "g", "u", "r", "e">>)
            \/ Contains(q, <<"p", "h", "o", "t", "o">>)
            \/ Contains(q, <<"g", "r", "a", "p", "h">>)
            \/ Contains(q, <<"c", "h", "a", "r", "t">>)
    THEN Some("image")
    ELSE None

analyze(query_chars) ==
    LET q == q_lower(query_chars) IN
    IF \/ Contains(q, <<"i", "m", "a", "g", "e">>)
       \/ Contains(q, <<"f", "i", "g", "u", "r", "e">>)
       \/ Contains(q, <<"p", "h", "o", "t", "o">>)
       \/ Contains(q, <<"g", "r", "a", "p", "h">>)
       \/ Contains(q, <<"c", "h", "a", "r", "t">>)
    THEN Some("image")
    ELSE IF \/ Contains(q, <<"t", "a", "b", "l", "e">>)
            \/ Contains(q, <<"g", "r", "i", "d">>)
            \/ Contains(q, <<"d", "a", "t", "a">>)
    THEN Some("table")
    ELSE None

(***************************************************************************)
(* RetrievalAgent.run (src/core/agent.py) and its tools                    *)
(***************************************************************************)
\* a stored chunk as a langchain Document
Doc(page_content, chunk_id, element_type) ==
    [page_content |-> page_content,
     metadata |-> [chunk_id |-> chunk_id, element_type |-> element_type]]

\* the documents of the collection: the same text is held by chunks of
\* different files and kinds
Docs ==
    { Doc("t1", "a_p1_c0", "text"), Doc("t1", "b_p1_c0", "image"),
      Doc("t2", "a_p2_c1", "image"), Doc("t2", "a_p2_c2", "table") }

\* VectorRetriever.retrieve: what a top-k search can return, the filter of
\* the search being on element_type when content_type is given
retrieve(content_type) ==
    LET matching == IF content_type = None THEN Docs
                    ELSE {d \in Docs : d.metadata.element_type = content_type[1]}
    IN UNION {[1..n -> matching] : n \in 0..MaxTopK}

\* the key of the de-duplication dict
DocKeyChunkId(doc) == doc.metadata.chunk_id

DocKey(doc) == doc.page_content

\* a dict that would keep the value a key was first given
RECURSIVE DictOfDocsKeepFirst(_, _)
DictOfDocsKeepFirst(docs, items) ==
    IF docs = <<>> THEN items
    ELSE LET doc == Head(docs)
             at == {k \in DOMAIN items : items[k].key = DocKey(doc)}
         IN DictOfDocsKeepFirst(Tail(docs),
                IF at = {} THEN Append(items, [key |-> DocKey(doc), value |-> doc])
                ELSE items)

\* {doc.page_content: doc for doc in candidate_docs}: the items of the dict
\* in the order of insertion.  A key that is already there keeps its place
\* and gets the new value.
RECURSIVE DictOfDocs(_, _)
DictOfDocs(docs, items) ==
    IF docs = <<>> THEN items
    ELSE LET doc == Head(docs)
             at == {k \in DOMAIN items : items[k].key = DocKey(doc)}
         IN DictOfDocs(Tail(docs),
                IF at = {} THEN Append(items, [key |-> DocKey(doc), value |-> doc])
                ELSE [k \in DOMAIN items |->
                         IF k \in at THEN [key |-> items[k].key, value |-> doc]
                         ELSE items[k]])

\* list({...}.values())
DictValues(items) == [k \in DOMAIN items |-> items[k].value]

\* candidate_docs.extend(filtered_docs)
ExtendReplaces(candidate_docs, filtered_docs) == filtered_docs

Extend(candidate_docs, filtered_docs) == candidate_docs \o filtered_docs

\* Reranker.rerank: [] for no documents, else what the cross-encoder
\* returns, some of the documents in some order
rerank(documents) ==
    IF documents = <<>> THEN {<<>>}
    ELSE LET picks == {s \in UNION {[1..n -> DOMAIN documents] :
                                        n \in 0..Len(documents)} :
                          \A i, k \in DOMAIN s : i # k => s[i] # s[k]}
         IN {[i \in DOMAIN s |-> documents[s[i]]] : s \in picks}

\* "if content_preference:"
HasPreference(content_preference) ==
    content_preference # None /\ content_preference[1] # ""

(***************************************************************************)
(* Agent harness: RetrievalAgent.run on a query, step by step.             *)
(***************************************************************************)
QueryWords ==
    { <<"i", "m", "a", "g", "e">>, <<"f", "i", "g", "u", "r", "e">>,
      <<"p", "h", "o", "t", "o">>, <<"g", "r", "a", "p", "h">>,
      <<"C", "h", "a", "r", "t">>, <<"T", "A", "B", "L", "E">>,
      <<"g", "r", "i", "d">>, <<"d", "a", "t", "a">>,
      <<"I", "m", "a">>, <<"G", "E">>, <<"t", "a">>, <<"b", "l", "e">>,
      <<" ">>, <<"s">> }

RECURSIVE Flatten(_)
Flatten(words) == IF words = <<>> THEN <<>> ELSE Head(words) \o Flatten(Tail(words))

Queries == {Flatten(w) : w \in UNION {[1..n -> QueryWords] : n \in 0..MaxQueryWords}}

\* the queries of the runs that go on to retrieval
FewQueries ==
    { <<"s">>, <<"C", "h", "a", "r", "t">>, <<"d", "a", "t", "a">>,
      <<"T", "A", "B", "L", "E", " ", "i", "m", "a", "g", "e">> }

StartRun ==
    [ pc |-> "analyze", content_preference |-> None, general_docs |-> <<>>,
      filtered_docs |-> <<>>, candidate_docs |-> <<>>, unique_docs |-> <<>>,
      final_docs |-> <<>>, source_nodes |-> None ]

InitAgent(queries) ==
    /\ query \in queries
    /\ agent = StartRun
    /\ searches = <<>>
    /\ ChunkIdle
    /\ IngestIdle
    /\ NormIdle
    /\ RespIdle
    /\ StreamIdle
    /\ call = <<>>

\* Step 1: content_preference = self.query_analyzer.analyze(query)
run_analyze ==
    /\ agent.pc = "analyze"
    /\ agent' = [agent EXCEPT !.pc = "retrieve",
                              !.content_preference = analyze(query)]
    /\ UNCHANGED <<query, searches, chunkVars, ingestVars, normVars, respVars, streamVars, call>>

\* Step 2: the general search; the search can fail, and run raises
run_retrieve(ok, docs) ==
    /\ agent.pc = "retrieve"
    /\ searches' = Append(searches, [content_type |-> None])
    /\ agent' = IF ok
                THEN [agent EXCEPT !.general_docs = docs, !.candidate_docs = docs,
                                   !.pc = IF HasPreference(agent.content_preference)
                                          THEN "boost" ELSE "dedup"]
                ELSE [agent EXCEPT !.pc = "raised"]
    /\ UNCHANGED <<query, chunkVars, ingestVars, normVars, respVars, streamVars, call>>

\* the second, filtered search of a query with a preference
run_boost(ok, docs) ==
    /\ agent.pc = "boost"
    /\ searches' = Append(searches, [content_type |-> agent.content_preference])
    /\ agent' = IF ok
                THEN [agent EXCEPT !.filtered_docs = docs,
                                   !.candidate_docs = Extend(@, docs),
                                   !.pc = "dedup"]
                ELSE [agent EXCEPT !.pc = "raised"]
    /\ UNCHANGED <<query, chunkVars, ingestVars, normVars, respVars, streamVars, call>>

\* unique_docs = list({doc.page_content: doc for doc in candidate_docs}.values())
run_dedup ==
    /\ agent.pc = "dedup"
    /\ agent' = [agent EXCEPT !.unique_docs =
                                 DictValues(DictOfDocs(agent.candidate_docs, <<>>)),
                              !.pc = "rerank"]
    /\ UNCHANGED <<query, searches, chunkVars, ingestVars, normVars, respVars, streamVars, call>>

\* Steps 3 to 6: rerank, then the chain is built over the final documents
\* and the StreamingRAGResponse is returned
run_rerank(ok, docs) ==
    /\ agent.pc = "rerank"
    /\ agent' = IF ok
                THEN [agent EXCEPT !.final_docs = docs, !.source_nodes = Some(docs),
                                   !.pc = "done"]
                ELSE [agent EXCEPT !.pc = "raised"]
    /\ UNCHANGED <<query, searches, chunkVars, ingestVars, normVars, respVars, streamVars, call>>

NextAgent ==
    \/ run_analyze
    \/ \E docs \in retrieve(None) : run_retrieve(TRUE, docs)
    \/ run_retrieve(FALSE, <<>>)
    \/ \E docs \in retrieve(agent.content_preference) : run_boost(TRUE, docs)
    \/ run_boost(FALSE, <<>>)
    \/ run_dedup
    \/ \E docs \in rerank(agent.unique_docs) : run_rerank(TRUE, docs)
    \/ run_rerank(FALSE, <<>>)

InitRetrieval == InitAgent(FewQueries)

SpecAgent == InitRetrieval /\ [][NextAgent]_vars

\* QueryAnalyzer.analyze on any bounded query
InitAnalyze == InitAgent(Queries)

NextAnalyze == run_analyze

SpecAnalyze == InitAnalyze /\ [][NextAnalyze]_vars

(***************************************************************************)
(* Calls wrapped in tenacity's @retry: EmbeddingService._embed_batch,      *)
(* LLMService.generate_text and LLMService.generate_image_caption.  Every  *)
(* exception is retried (retry_if_exception_type(Exception)) until         *)
(* stop_after_attempt(3) stops the call.                                   *)
(***************************************************************************)
\* stop_after_attempt(3)
ShouldStopLate(attempt_number) == attempt_number >= StopAfterAttempt + 1

ShouldStop(attempt_number) == attempt_number >= StopAfterAttempt

\* reraise=True is given for _embed_batch only
Reraise(fn) == fn = "_embed_batch"

\* what ends a call whose last attempt failed: the exception of that
\* attempt, or tenacity's RetryError holding it
Raised(fn, error) ==
    IF Reraise(fn) THEN [type |-> error, last_attempt |-> None]
    ELSE [type |-> "RetryError", last_attempt |-> Some(error)]

\* the calls: the function and the argument its guards look at
RetriedCalls ==
    { [fn |-> "_embed_batch", arg |-> "texts"],
      [fn |-> "generate_text", arg |-> "prompt"],
      [fn |-> "generate_text", arg |-> ""],
      [fn |-> "generate_image_caption", arg |-> "figures/2.jpg"],
      [fn |-> "generate_image_caption", arg |-> "missing.jpg"] }

\* what the backend does in one attempt
BackendOutcomes ==
    { [ok |-> TRUE, value |-> "v1"], [ok |-> TRUE, value |-> "v2"],
      [ok |-> TRUE, value |-> "bad shape"],
      [ok |-> FALSE, value |-> "ConnectionError"],
      [ok |-> FALSE, value |-> "ResourceExhausted"] }

\* one run of the function body: the result it returns or the exception
\* it raises
Attempt(c, backend) ==
    IF c.fn = "generate_text" /\ c.arg = ""
    THEN [ok |-> FALSE, value |-> "ValueError"]
    ELSE IF c.fn = "generate_image_caption" /\ c.arg = "missing.jpg"
    THEN [ok |-> FALSE, value |-> "FileNotFoundError"]
    ELSE IF c.fn = "_embed_batch" /\ backend.ok /\ backend.value = "bad shape"
    THEN [ok |-> FALSE, value |-> "RuntimeError"]
    ELSE backend

InitRetry ==
    /\ \E c \in RetriedCalls :
          call = [fn |-> c.fn, arg |-> c.arg, state |-> "calling",
                  attempts |-> <<>>, result |-> None, error |-> None]
    /\ ChunkIdle
    /\ IngestIdle
    /\ NormIdle
    /\ RespIdle
    /\ AgentIdle
    /\ StreamIdle

\* one attempt of the wrapped function
retry_attempt(backend) ==
    /\ call.state = "calling"
    /\ LET outcome == Attempt(call, backend)
           attempt_number == Len(call.attempts) + 1
       IN call' = [call EXCEPT
              !.attempts = Append(@, outcome),
              !.state = IF outcome.ok THEN "returned"
                        ELSE IF ShouldStop(attempt_number) THEN "raised"
                        ELSE "waiting",
              !.result = IF outcome.ok THEN Some(outcome.value) ELSE None,
              !.error = IF ~outcome.ok /\ ShouldStop(attempt_number)
                        THEN Some(Raised(call.fn, outcome.value)) ELSE None]
    /\ UNCHANGED <<chunkVars, ingestVars, normVars, respVars, agentVars, streamVars>>

\* wait_exponential: the sleep before the next attempt
retry_wait ==
    /\ call.state = "waiting"
    /\ call' = [call EXCEPT !.state = "calling"]
    /\ UNCHANGED <<chunkVars, ingestVars, normVars, respVars, agentVars, streamVars>>

NextRetry ==
    \/ \E backend \in BackendOutcomes : retry_attempt(backend)
    \/ retry_wait

SpecRetry == InitRetry /\ [][NextRetry]_vars

(***************************************************************************)
(* Properties of the ingestion pipeline                                    *)
(***************************************************************************)
Returned(j) == orch[j].pc = "returned"

\* run j ran after run k had ended, for the same document path
InSequence(k, j) == k \in orch[j].ran_after /\ orch[k].doc_path = orch[j].doc_path

\* C1: two runs in sequence for the same path, the first one writing its
\* chunks and the second one's existence check answering: the first run
\* returns True, the second returns False as a skipped duplicate.
C1_SecondRunIsDuplicate ==
    \A k, j \in Jobs :
        (Returned(j) /\ InSequence(k, j) /\ orch[k].state = "DONE" /\ orch[j].check_ok)
        => /\ orch[k].was_processed = "True"
           /\ orch[j].was_processed = "False"
           /\ orch[j].state = "SKIPPED_DUPLICATE"

\* C2: a run that has loaded its chunks (LOADING -> DONE) returns True.
C2_DoneReturnsTrue ==
    \A j \in Jobs : (Returned(j) /\ orch[j].state = "DONE") => orch[j].was_processed = "True"

\* C3: when extraction yields zero elements the run ends in
\* FAILED_NO_ELEMENTS, and a run that ended there has written nothing.
C3_NoElementsNoWrite ==
    \A j \in Jobs :
        /\ (orch[j].extracted /\ orch[j].raw_elements = <<>>)
           => (Returned(j) /\ orch[j].state = "FAILED_NO_ELEMENTS")
        /\ orch[j].state = "FAILED_NO_ELEMENTS" => orch[j].writes = 0

C3_Witness ==
    \E j \in Jobs :
        /\ Returned(j) /\ orch[j].extracted /\ orch[j].raw_elements = <<>>
        /\ orch[j].state = "FAILED_NO_ELEMENTS"
        /\ store # <<>>

\* C4: the value run returns from FAILED_NO_ELEMENTS differs from the value
\* it returns from SKIPPED_DUPLICATE.
C4_FailureDistinctFromDuplicate ==
    \A j, k \in Jobs :
        ( /\ orch[j].state = "FAILED_NO_ELEMENTS"
          /\ orch[k].state = "SKIPPED_DUPLICATE"
          /\ orch[j].was_processed # "not returned"
          /\ orch[k].was_processed # "not returned" )
        => orch[j].was_processed # orch[k].was_processed

\* C5: the final status of a job whose ingestion failed (no elements, no
\* chunks, or an exception) is FAILED, never SUCCESS or DUPLICATE.
IngestionFailed(j) ==
    \/ orch[j].state \in {"FAILED_NO_ELEMENTS", "FAILED_NO_CHUNKS"}
    \/ orch[j].state = "LOADING" /\ orch[j].pc \in {"raised", "sleeping", "finished"}

C5_FailureRecordedAsFailed ==
    \A j \in Jobs :
        (orch[j].pc = "sleeping" /\ IngestionFailed(j) /\ JOB_STATUSES[j] # None)
        => JOB_STATUSES[j][1].status = "FAILED"

\* C6: within one run the percentages handed to the progress callback are
\* strictly increasing.
C6_ProgressIncreases ==
    \A j \in Jobs :
        \A i \in 1..(Len(orch[j].progress) - 1) :
            orch[j].progress[i].progress < orch[j].progress[i + 1].progress

C6_Witness ==
    \E j \in Jobs :
        /\ Returned(j) /\ orch[j].state = "DONE"
        /\ Len(orch[j].progress) = 10
        /\ orch[j].progress[10].progress = 100

\* C7: every transition of the orchestrator state machine, those into the
\* early-exit states included, comes with a progress notification.
C7_EveryTransitionNotifies ==
    [][\A j \in Jobs :
          orch'[j].state # orch[j].state
          => Len(orch'[j].progress) > Len(orch[j].progress)]_vars

(***************************************************************************)
(* Properties of the chunker                                               *)
(***************************************************************************)
\* C8: the chunk ids of one create_chunks result are pairwise distinct.
C8_ChunkIdsDistinct ==
    chunks # None =>
        \A a, b \in DOMAIN chunks[1] :
            a # b => chunks[1][a].chunk_id # chunks[1][b].chunk_id

C8_Witness ==
    /\ chunks # None
    /\ Len(chunks[1]) >= 3
    /\ \E a, b \in DOMAIN chunks[1] :
          /\ a # b
          /\ chunks[1][a].structural_metadata.page_number
                = chunks[1][b].structural_metadata.page_number
          /\ chunks[1][a].structural_metadata.element_type
                = chunks[1][b].structural_metadata.element_type

(***************************************************************************)
(* Properties of the enricher                                              *)
(***************************************************************************)
\* enrich_elements of run j has returned and its locals are still there
EnrichReturned(j) ==
    /\ orch[j].state \in {"CHUNKING", "LOADING", "DONE", "FAILED_NO_CHUNKS"}
    /\ orch[j].tasks # <<>>

DistinctIds(tasks) ==
    \A a, b \in DOMAIN tasks : a # b => tasks[a].element.id # tasks[b].element.id

FailedTasks(tasks) == {i \in DOMAIN tasks : tasks[i].failed}

\* what the LLM call of the element's own task returned
OwnValue(element) ==
    IF IsTable(element) THEN generate_text(element.text_as_html[1])
    ELSE generate_image_caption(element.image_path[1])

Placeholders == {"Failed to generate summary.", "Failed to generate caption."}

\* C9: with distinct element ids and exactly one failed enrichment call,
\* enrich_elements returns a map with one entry per Table/Image element:
\* a placeholder for the failed one, its own call's value for every other.
C9_EnrichmentIsolation ==
    \A j \in Jobs :
        LET tasks == orch[j].tasks
            map == orch[j].enriched_data
        IN (EnrichReturned(j) /\ DistinctIds(tasks)
              /\ Cardinality(FailedTasks(tasks)) = 1)
           => /\ Cardinality(DOMAIN map) = Len(tasks)
              /\ \A i \in DOMAIN tasks :
                    /\ tasks[i].element.id \in DOMAIN map
                    /\ tasks[i].failed => map[tasks[i].element.id] \in Placeholders
                    /\ (~tasks[i].failed /\ CallsLLM(tasks[i].element))
                       => map[tasks[i].element.id] = OwnValue(tasks[i].element)

C9_Witness ==
    \E j \in Jobs :
        /\ EnrichReturned(j) /\ DistinctIds(orch[j].tasks)
        /\ Len(orch[j].tasks) = 3
        /\ Cardinality(FailedTasks(orch[j].tasks)) = 1
        /\ orch[j].tasks[2].failed
        /\ orch[j].enriched_data["e1"] = "summary of <table 1>"

\* the positions of the Table and Image elements of a document
MediaElements(raw_elements) ==
    {i \in DOMAIN raw_elements : raw_elements[i].kind \in {"Table", "Image"}}

\* C18: from the moment run awaits enrich_elements there is one task per
\* Table and per Image element; chunking starts only when every task has
\* completed, with a map that has an entry for the id of each of them.
C18_EnrichmentFanOut ==
    \A j \in Jobs :
        LET raw == orch[j].raw_elements
            tasks == orch[j].tasks
        IN /\ orch[j].pc \in {"enrich", "chunk", "load"} =>
                /\ Len(tasks) = Cardinality(MediaElements(raw))
                /\ \A i \in MediaElements(raw) :
                       \E t \in DOMAIN tasks : tasks[t].element = raw[i]
           /\ orch[j].pc \in {"chunk", "load"} =>
                /\ \A t \in DOMAIN tasks : tasks[t].done
                /\ DOMAIN orch[j].enriched_data
                     = {raw[i].id : i \in MediaElements(raw)}

C18_Witness ==
    \E j \in Jobs :
        /\ orch[j].pc = "chunk"
        /\ Cardinality(MediaElements(orch[j].raw_elements)) = 3
        /\ Cardinality({orch[j].raw_elements[i].kind :
                           i \in MediaElements(orch[j].raw_elements)}) = 2
        /\ Cardinality(DOMAIN orch[j].enriched_data) = 3
        /\ FailedTasks(orch[j].tasks) = {}

(***************************************************************************)
(* Properties of the output validator                                      *)
(***************************************************************************)
\* the markers of a text: the spans <<first, last>> of the matches of
\* IMAGE_TAG_RE, leftmost first and not overlapping
RECURSIVE MarkerSpans(_, _)
MarkerSpans(text, i) ==
    IF i > Len(text) THEN {}
    ELSE IF MatchEnd(text, i) > 0
         THEN {<<i, MatchEnd(text, i)>>} \cup MarkerSpans(text, MatchEnd(text, i) + 1)
         ELSE MarkerSpans(text, i + 1)

\* the image_path values of the source documents that have one
ImagePathSet(docs) ==
    {Concat(docs[d][1]) : d \in {k \in DOMAIN docs : docs[k] # None /\ docs[k][1] # <<>>}}

MarkerPath(text, span) == SubSeq(text, span[1] + PrefixAt(text, span[1]), span[2] - 1)

\* what becomes of position p of the answer when a marker is kept as it
\* stands if its path is in the set and is deleted otherwise
VerbatimAt(text, p, paths) ==
    LET spans == MarkerSpans(text, 1)
        mine == {sp \in spans : sp[1] <= p /\ p <= sp[2]}
    IN IF mine = {} THEN text[p]
       ELSE LET sp == CHOOSE x \in mine : TRUE IN
            IF Concat(MarkerPath(text, sp)) \in paths THEN text[p] ELSE ""

\* the same with the path compared, and written back, without the
\* whitespace around it
StrippedAt(text, p, paths) ==
    LET spans == MarkerSpans(text, 1)
        mine == {sp \in spans : sp[1] <= p /\ p <= sp[2]}
    IN IF mine = {} THEN text[p]
       ELSE LET sp == CHOOSE x \in mine : TRUE
                path == Concat(Strip(MarkerPath(text, sp)))
            IN IF p = sp[1] /\ path \in paths
               THEN "[IMAGE:" \o path \o "]"
               ELSE ""

RECURSIVE VerbatimFrom(_, _, _)
VerbatimFrom(text, p, paths) ==
    IF p > Len(text) THEN ""
    ELSE VerbatimAt(text, p, paths) \o VerbatimFrom(text, p + 1, paths)

RECURSIVE StrippedFrom(_, _, _)
StrippedFrom(text, p, paths) ==
    IF p > Len(text) THEN ""
    ELSE StrippedAt(text, p, paths) \o StrippedFrom(text, p + 1, paths)

\* C10 as claimed: a marker stays, verbatim, exactly when its path is one of
\* the image paths of the source documents; otherwise the whole marker
\* goes; the text outside the markers is unchanged.
C10_KeptVerbatimIffInSet ==
    normalized # None =>
        Concat(normalized[1]) = VerbatimFrom(answer, 1, ImagePathSet(source_docs))

\* C10 as amended: a marker stays exactly when its path with the
\* surrounding whitespace stripped is one of the image paths, and it is
\* written back as [IMAGE:<stripped path>]; otherwise the whole marker
\* goes; the text outside the markers is unchanged.
C10_KeptStrippedIffInSet ==
    normalized # None =>
        Concat(normalized[1]) = StrippedFrom(answer, 1, ImagePathSet(source_docs))

C10_Witness ==
    /\ normalized # None
    /\ source_docs = <<Some(<<"a.png">>)>>
    /\ Concat(answer) = "[IMAGE:a.png][IMAGE:b.png]"
    /\ Concat(normalized[1]) = "[IMAGE:a.png]"

\* C15: when the scroll of is_document_processed raises, the check answers
\* False and run leaves DUPLICATE_CHECK for EXTRACTING, whatever the store
\* holds.
C15_FailedCheckProceeds ==
    [][\A j \in Jobs :
          ( /\ orch[j].pc = "duplicate_check"
            /\ orch'[j].pc # "duplicate_check"
            /\ ~orch'[j].check_ok )
          => /\ orch'[j].pc = "extract"
             /\ orch'[j].state = "EXTRACTING"
             /\ orch'[j].was_processed = "not returned"]_vars

C15_Witness ==
    \E j \in Jobs :
        /\ orch[j].pc = "extract" /\ orch[j].state = "EXTRACTING"
        /\ ~orch[j].check_ok
        /\ StoreHasFileName(orch[j].doc_path[1])

\* C28: a duplicate check that answers true ends the run there, with False:
\* the extractor, the enrichment, the chunker and add_chunks have not been
\* called and the store is what it was.
C28_DuplicateRunTouchesNothing ==
    [][\A j \in Jobs :
          ( /\ orch[j].pc = "duplicate_check"
            /\ orch'[j].pc # "duplicate_check"
            /\ orch'[j].check_ok
            /\ StoreHasFileName(orch[j].doc_path[1]) )
          => /\ orch'[j].pc = "returned"
             /\ orch'[j].state = "SKIPPED_DUPLICATE"
             /\ orch'[j].was_processed = "False"
             /\ ~orch'[j].extracted
             /\ orch'[j].raw_elements = <<>>
             /\ orch'[j].tasks = <<>>
             /\ orch'[j].enriched_data = <<>>
             /\ orch'[j].document_chunks = <<>>
             /\ orch'[j].writes = 0
             /\ store' = store]_vars

C28_Witness ==
    \E j \in Jobs :
        /\ Returned(j) /\ orch[j].state = "SKIPPED_DUPLICATE"
        /\ orch[j].check_ok
        /\ StoreHasFileName(orch[j].doc_path[1])
        /\ orch[j].writes = 0
        /\ \E k \in Jobs : k # j /\ orch[k].writes = 1

TerminalStatuses == {"SUCCESS", "DUPLICATE", "FAILED"}

\* C30: an entry with a terminal status keeps that status as long as it is
\* there; it is there all through the sleep of _process_bg that follows
\* the final status and is removed by the step that ends the sleep; no
\* other step removes an entry, so a QUEUED or PROCESSING entry is never
\* removed.
C30_TerminalStatusIsFinal ==
    /\ [](\A j \in Jobs :
            orch[j].pc = "sleeping"
            => /\ JOB_STATUSES[j] # None
               /\ JOB_STATUSES[j][1].status \in TerminalStatuses)
    /\ [][\A j \in Jobs :
            /\ (JOB_STATUSES[j] # None /\ JOB_STATUSES'[j] # None
                  /\ JOB_STATUSES[j][1].status \in TerminalStatuses)
               => JOB_STATUSES'[j][1].status = JOB_STATUSES[j][1].status
            /\ (JOB_STATUSES[j] # None /\ JOB_STATUSES'[j] = None)
               => /\ JOB_STATUSES[j][1].status \in TerminalStatuses
                  /\ orch[j].pc = "sleeping"
            /\ (orch[j].pc = "sleeping" /\ orch'[j].pc # "sleeping")
               => JOB_STATUSES'[j] = None
            /\ (JOB_STATUSES[j] = None /\ JOB_STATUSES'[j] # None)
               => orch[j].pc = "idle"]_vars

C30_Witness ==
    \E j, k \in Jobs :
        /\ orch[j].pc = "finished" /\ JOB_STATUSES[j] = None
        /\ orch[k].pc = "sleeping"
        /\ JOB_STATUSES[k] # None /\ JOB_STATUSES[k][1].status = "FAILED"

\* run k ended while run j, for the same path, was under way: j made its
\* duplicate check before k wrote
EndedDuring(k, j) ==
    /\ k # j
    /\ orch[k].pc = "sleeping"
    /\ k \notin orch[j].ran_after
    /\ orch[k].doc_path = orch[j].doc_path

\* the points of the store that hold the chunk for the file
PointsOf(file_path, chunk_id) ==
    {i \in DOMAIN store : /\ store[i].metadata.file_path = file_path
                          /\ store[i].metadata.chunk_id = chunk_id}

\* C16: two runs for one path, each making its duplicate check before the
\* other writes: neither write is held back, and the store holds the
\* chunks of the document twice.
C16_RaceWritesTwice ==
    \A j, k \in Jobs :
        ( /\ Returned(j) /\ orch[j].state = "DONE"
          /\ EndedDuring(k, j) /\ orch[k].state = "DONE" )
        => /\ orch[j].writes = 1 /\ orch[k].writes = 1
           /\ \A c \in DOMAIN orch[j].document_chunks :
                 Cardinality(PointsOf(PathString(orch[j].doc_path[1]),
                                      orch[j].document_chunks[c].chunk_id)) >= 2

C16_Witness ==
    \E j, k \in Jobs :
        /\ Returned(j) /\ orch[j].state = "DONE"
        /\ EndedDuring(k, j) /\ orch[k].state = "DONE"
        /\ orch[j].check_ok
        /\ orch[j].doc_path[1].dir = ""
        /\ Len(store) = 2 * Len(orch[j].document_chunks)

LineStartsAt(text, j) ==
    \A k \in 1..(j - 1) : (\A m \in k..(j - 1) : text[m] # "\n") => text[k] = " "

\* the positions of the word Sources at the start of a line
SourcesLines(text) ==
    {j \in 1..Len(text) : /\ text[j] \in SourcesWords
                          /\ LineStartsAt(text, j)
                          /\ (j = Len(text) \/ ~IsWordPiece(text[j + 1]))}

\* a bracketed citation "[... source ...]" on one line
HasBracketedSource(text) ==
    \E i, m, e \in 1..Len(text) :
        /\ i < m /\ m < e
        /\ text[i] = "[" /\ HasSource(text[m]) /\ text[e] = "]"
        /\ \A k \in i..e : text[k] # "\n"

\* C12: when the generated text has a line starting with "Sources", the
\* response ends with the text from that line on, unchanged (up to the
\* whitespace around it), and what stands before it is the cleaned answer,
\* which holds no bracketed "[Source: ...]" citation.
C12_SourcesSectionKept ==
    \A c \in DOMAIN returned :
        LET text == full_response[1]
            lines == SourcesLines(text)
            first == CHOOSE j \in lines : \A k \in lines : j <= k
            section == StripWs(SubSeq(text, first, Len(text)))
            cut == Len(returned[c]) - Len(section)
        IN lines # {} =>
             /\ cut >= 0
             /\ SubSeq(returned[c], cut + 1, Len(returned[c])) = section
             /\ ~HasBracketedSource(SubSeq(returned[c], 1, cut))

(***************************************************************************)
(* Properties of RetrievalAgent.run                                        *)
(***************************************************************************)
Deduplicated == agent.pc \in {"rerank", "done"}

TextsOf(docs) == {docs[i].page_content : i \in DOMAIN docs}

\* C13: the list handed to the reranker holds every retrieved text once,
\* whichever search returned the candidates that carry it.
C13_RerankInputDistinctTexts ==
    Deduplicated =>
        /\ \A i, k \in DOMAIN agent.unique_docs :
               i # k => agent.unique_docs[i].page_content
                            # agent.unique_docs[k].page_content
        /\ TextsOf(agent.unique_docs) = TextsOf(agent.candidate_docs)

C13_Witness ==
    /\ Deduplicated
    /\ \E i \in DOMAIN agent.general_docs, k \in DOMAIN agent.filtered_docs :
           /\ agent.general_docs[i].page_content = agent.filtered_docs[k].page_content
           /\ agent.general_docs[i] # agent.filtered_docs[k]
    /\ Len(agent.unique_docs) < Len(agent.candidate_docs)
    /\ Len(agent.unique_docs) >= 2

FirstIndex(docs, text) ==
    CHOOSE i \in DOMAIN docs :
        docs[i].page_content = text
        /\ \A k \in DOMAIN docs : docs[k].page_content = text => i <= k

LastIndex(docs, text) ==
    CHOOSE i \in DOMAIN docs :
        docs[i].page_content = text
        /\ \A k \in DOMAIN docs : docs[k].page_content = text => k <= i

InOrderOfFirstOccurrence ==
    \A i, k \in DOMAIN agent.unique_docs :
        i < k => FirstIndex(agent.candidate_docs, agent.unique_docs[i].page_content)
                   < FirstIndex(agent.candidate_docs, agent.unique_docs[k].page_content)

\* C14 as stated: the document kept for a text is the first candidate that
\* carries it, and the kept documents stand in the order of the first
\* occurrences of their texts.
C14_FirstOccurrenceWins ==
    Deduplicated =>
        /\ \A i \in DOMAIN agent.unique_docs :
               agent.unique_docs[i]
                 = agent.candidate_docs[FirstIndex(agent.candidate_docs,
                                                   agent.unique_docs[i].page_content)]
        /\ InOrderOfFirstOccurrence

\* C14 amended: the document kept for a text is the last candidate that
\* carries it, at the place of the first occurrence of the text.
C14_LastOccurrenceWins ==
    Deduplicated =>
        /\ \A i \in DOMAIN agent.unique_docs :
               agent.unique_docs[i]
                 = agent.candidate_docs[LastIndex(agent.candidate_docs,
                                                  agent.unique_docs[i].page_content)]
        /\ InOrderOfFirstOccurrence

C14_Witness ==
    /\ Deduplicated
    /\ Len(agent.unique_docs) >= 2
    /\ \E i \in DOMAIN agent.unique_docs :
          LET text == agent.unique_docs[i].page_content IN
          /\ agent.candidate_docs[FirstIndex(agent.candidate_docs, text)]
                # agent.unique_docs[i]
          /\ \E k \in DOMAIN agent.candidate_docs :
                /\ k > FirstIndex(agent.candidate_docs, text)
                /\ agent.candidate_docs[k].page_content # text

Unfiltered == [content_type |-> None]

\* C19: the first search of a run is unfiltered and it is the only
\* unfiltered one; there is a second search exactly when analyze returned a
\* preference, filtered to it; the candidates are the results of the first
\* search followed by those of the second.
C19_SearchesOfARun ==
    /\ Len(searches) <= 2
    /\ Len(searches) >= 1 => searches[1] = Unfiltered
    /\ Len(searches) = 2 =>
          /\ agent.content_preference # None
          /\ searches[2] = [content_type |-> agent.content_preference]
    /\ Deduplicated =>
          /\ Len(searches) = IF agent.content_preference # None THEN 2 ELSE 1
          /\ agent.candidate_docs = agent.general_docs \o agent.filtered_docs

C19_Witness ==
    /\ Deduplicated
    /\ searches = <<Unfiltered, [content_type |-> Some("image")]>>
    /\ Len(agent.general_docs) = 2
    /\ Len(agent.filtered_docs) = 2
    /\ agent.general_docs # agent.filtered_docs
    /\ Len(agent.candidate_docs) = 4

(***************************************************************************)
(* Properties of QueryAnalyzer                                             *)
(***************************************************************************)
ImageKeywords ==
    { <<"i", "m", "a", "g", "e">>, <<"f", "i", "g", "u", "r", "e">>,
      <<"p", "h", "o", "t", "o">>, <<"g", "r", "a", "p", "h">>,
      <<"c", "h", "a", "r", "t">> }

TableKeywords ==
    { <<"t", "a", "b", "l", "e">>, <<"g", "r", "i", "d">>, <<"d", "a", "t", "a">> }

HasKeyword(chars, keywords) == \E w \in keywords : Contains(chars, w)

\* C20: the preference is "image" when the lowercased query holds an image
\* keyword, also next to a table keyword; "table" when it holds a table
\* keyword and no image keyword; None otherwise; and it is the preference
\* of the lowercased query.
C20_ImageBeforeTable ==
    agent.pc # "analyze" =>
        /\ agent.content_preference =
              IF HasKeyword(lower(query), ImageKeywords) THEN Some("image")
              ELSE IF HasKeyword(lower(query), TableKeywords) THEN Some("table")
              ELSE None
        /\ agent.content_preference = analyze(lower(query))

C20_Witness ==
    /\ agent.pc # "analyze"
    /\ query # lower(query)
    /\ ~HasKeyword(query, ImageKeywords)
    /\ HasKeyword(lower(query), ImageKeywords)
    /\ HasKeyword(lower(query), TableKeywords)
    /\ agent.content_preference = Some("image")

(***************************************************************************)
(* Properties of the retried calls                                         *)
(***************************************************************************)
Failures == {i \in DOMAIN call.attempts : ~call.attempts[i].ok}

LaterGroupValue(chunk, k) ==
    IF k \in DOMAIN chunk.multimodal_metadata THEN chunk.multimodal_metadata[k]
    ELSE IF k \in DOMAIN chunk.structural_metadata THEN chunk.structural_metadata[k]
    ELSE chunk.document_metadata[k]

GroupKeys(chunk) ==
    DOMAIN chunk.document_metadata \cup DOMAIN chunk.structural_metadata
        \cup DOMAIN chunk.multimodal_metadata

\* C21: add_chunks writes one record per chunk; its metadata has the keys of
\* the three groups and chunk_id; a key of several groups has the value of
\* the later group (document < structural < multimodal); chunk_id is the
\* chunk's own chunk_id, whatever the groups say, and not the point id.
C21_FlatMetadataLastGroupWins ==
    store # <<>> =>
        /\ Len(store) = Len(chunks[1])
        /\ \A i \in DOMAIN store :
              LET chunk == chunks[1][i]
                  metadata == store[i].metadata
              IN /\ DOMAIN metadata = GroupKeys(chunk) \cup {"chunk_id"}
                 /\ metadata.chunk_id = chunk.chunk_id
                 /\ metadata.chunk_id # ToString(store[i].id)
                 /\ \A k \in GroupKeys(chunk) \ {"chunk_id"} :
                       metadata[k] = LaterGroupValue(chunk, k)

C21_Witness ==
    /\ Len(store) = 1
    /\ DOMAIN chunks[1][1].document_metadata = MetadataKeys
    /\ DOMAIN chunks[1][1].structural_metadata = {"page_number", "summary"}
    /\ DOMAIN chunks[1][1].multimodal_metadata = {"summary", "chunk_id"}
    /\ store[1].metadata.summary = "multimodal.summary"
    /\ store[1].metadata.page_number = "structural.page_number"
    /\ store[1].metadata.file_name = "document.file_name"
    /\ store[1].metadata.chunk_id = "report_p1_c0"

(***************************************************************************)
(* Further properties of the chunker                                       *)
(***************************************************************************)
\* C22: the page segment of every chunk_id is the chunk's own structural
\* page_number: "_p<page_number>" when it is not None, no segment when it
\* is None.
C22_ChunkIdPageIsChunkPage ==
    chunks # None =>
        \A i \in DOMAIN chunks[1] :
            \E index \in 0..Len(chunks[1]) :
                chunks[1][i].chunk_id
                    = ChunkId(DocId(ChunkerDocPath),
                              chunks[1][i].structural_metadata.page_number, index)

\* the texts a splitter output can be made of, and the outputs that hold t
ElementTexts == {e.text : e \in Elements} \ {""}

Mentions(raw_content, t) ==
    \E n \in 1..MaxPiecesPerChunk :
        \E pieces \in [1..n -> ElementTexts] :
            /\ \E k \in 1..n : pieces[k] = t
            /\ raw_content = JoinTexts(pieces)

\* the page number of the nearest element before position i that has one
RECURSIVE NearestPage(_, _)
NearestPage(els, i) ==
    IF i <= 1 THEN None
    ELSE IF els[i - 1].page_number # None THEN els[i - 1].page_number
    ELSE NearestPage(els, i - 1)

TextChunkOf(chunk, page, t) ==
    /\ chunk.structural_metadata.element_type = "text"
    /\ chunk.structural_metadata.page_number = page
    /\ Mentions(chunk.raw_content, t)

\* C23: the text of a Text or Title element without a page number is in a
\* text chunk whose page_number is that of the nearest preceding element
\* that has one, of any kind, and None when there is no such element.
C23_InheritsNearestPage ==
    chunks # None =>
        \A i \in DOMAIN elements :
            (elements[i].kind \in {"Text", "Title"}
                /\ elements[i].page_number = None /\ elements[i].text # "")
            => \E c \in DOMAIN chunks[1] :
                  TextChunkOf(chunks[1][c], NearestPage(elements, i), elements[i].text)

C23_Witness ==
    /\ chunks # None
    /\ Len(elements) = 3
    /\ elements[1].kind = "Text" /\ elements[1].page_number = <<2>>
    /\ elements[2].kind = "Table" /\ elements[2].page_number = <<1>>
    /\ elements[3].kind = "Title" /\ elements[3].page_number = None
    /\ elements[1].text = ""
    /\ \E c \in DOMAIN chunks[1] : TextChunkOf(chunks[1][c], <<1>>, elements[3].text)

\* the text of the most recent Title at or before position i
RECURSIVE HeadingAt(_, _)
HeadingAt(els, i) ==
    IF i < 1 THEN "Introduction"
    ELSE IF els[i].kind = "Title" THEN els[i].text
    ELSE HeadingAt(els, i - 1)

\* C24: the text of every Text or Title element is in a text chunk whose
\* section_heading is the text of the most recent Title at or before the
\* element, "Introduction" when there is none: a Title is not the heading
\* of text that came before it.
C24_HeadingOfPrecedingTitle ==
    chunks # None =>
        \A i \in DOMAIN elements :
            (elements[i].kind \in {"Text", "Title"} /\ elements[i].text # "")
            => \E c \in DOMAIN chunks[1] :
                  /\ chunks[1][c].structural_metadata.element_type = "text"
                  /\ Mentions(chunks[1][c].raw_content, elements[i].text)
                  /\ chunks[1][c].structural_metadata.section_heading
                        = HeadingAt(elements, i)

IsMultimodalChunk(chunk) ==
    chunk.structural_metadata.element_type \in {"image", "table"}

\* the positions of the Table and Image elements and of their chunks
MediaPositions(els) == {i \in DOMAIN els : els[i].kind \in {"Table", "Image"}}
MultimodalPositions(cs) == {c \in DOMAIN cs : IsMultimodalChunk(cs[c])}

Rank(positions, p) == Cardinality({q \in positions : q <= p})

\* chunk c is the chunk of element e
ChunkOfElement(chunk, e, enriched) ==
    LET summary == DictGet(enriched, e.id, "N/A") IN
    /\ chunk.structural_metadata.element_type
          = (IF e.kind = "Table" THEN "table" ELSE "image")
    /\ chunk.raw_content = summary
    /\ chunk.multimodal_metadata.summary = summary
    /\ e.kind = "Table" => chunk.multimodal_metadata.table_html = e.text_as_html
    /\ e.kind = "Image" => chunk.multimodal_metadata.image_path = e.image_path

\* one chunk per Table and Image element, in document order
OneChunkPerMediaElement ==
    chunks # None =>
        /\ Cardinality(MultimodalPositions(chunks[1]))
              = Cardinality(MediaPositions(elements))
        /\ \A i \in MediaPositions(elements) :
              \A c \in MultimodalPositions(chunks[1]) :
                  Rank(MultimodalPositions(chunks[1]), c)
                        = Rank(MediaPositions(elements), i)
                  => ChunkOfElement(chunks[1][c], elements[i], enriched_data)

\* the chunks of the text before a Table or Image come before its chunk
TextBeforeMediaChunk ==
    chunks # None =>
        \A i \in MediaPositions(elements) :
            \A c \in MultimodalPositions(chunks[1]) :
                Rank(MultimodalPositions(chunks[1]), c)
                      = Rank(MediaPositions(elements), i)
                => \A t \in 1..(i - 1) :
                      (elements[t].kind \in {"Text", "Title"} /\ elements[t].text # "")
                      => \E b \in 1..(c - 1) :
                            /\ ~IsMultimodalChunk(chunks[1][b])
                            /\ Mentions(chunks[1][b].raw_content, elements[t].text)

\* C25: create_chunks emits one chunk per Table and per Image element, in
\* document order, with the enrichment of the element's id ("N/A" when
\* absent) as raw_content and summary and the element's own table_html or
\* image_path, after the chunks of all the text that precedes the element.
C25_MediaChunksInterleaved == OneChunkPerMediaElement /\ TextBeforeMediaChunk

(***************************************************************************)
(* Further properties of the output validator                              *)
(***************************************************************************)
\* C26: whatever the answer, nested and adjacent brackets included, every
\* [IMAGE:<path>] marker of the normalized text has a path that is one of
\* the image paths of the source documents.
C26_NoForeignMarker ==
    normalized # None =>
        \A i \in DOMAIN normalized[1] :
            MatchEnd(normalized[1], i) > 0
            => Concat(MatchGroup1(normalized[1], i)) \in ImagePathSet(source_docs)

(***************************************************************************)
(* Properties of the answer stream                                         *)
(***************************************************************************)
\* the whole text the backend generates
GeneratedText == Flatten(llm_stream.fragments)

\* C27: the validator is applied once, to the whole generated text: no
\* fragment reaches response_gen before the backend's stream has ended,
\* what response_gen yields is normalize of the whole text, and a marker
\* the backend split across fragments is in it only if its path is an
\* image path of the source documents.
C27_WholeTextValidated ==
    llm_stream # <<>> =>
        /\ (response_gen # <<>> \/ delivered # <<>>)
              => /\ llm_stream.next > Len(llm_stream.fragments)
                 /\ normalized = Some(normalize(GeneratedText, source_docs))
                 /\ delivered \o response_gen = <<Concat(normalized[1])>>
        /\ normalized # None =>
              \A i \in DOMAIN normalized[1] :
                  MatchEnd(normalized[1], i) > 0
                  => Concat(MatchGroup1(normalized[1], i)) \in ImagePathSet(source_docs)

C27_Witness ==
    /\ llm_stream # <<>>
    /\ source_docs = <<Some(<<"a.png">>)>>
    /\ llm_stream.fragments = << <<" ", "[IMA">>, <<"GE:", "b.png">>, <<"]", " ">> >>
    /\ delivered = <<"  ">>

\* the fragments that went to get_response, or are still to be yielded
NotTakenRaw == IF full_response # None THEN full_response[1] ELSE response_gen

\* C29: a fragment goes to one consumer only: the fragments taken from
\* response_gen followed by those get_response joined (or still to come)
\* are at every step the stream as it was; the final text is built from
\* the fragments get_response found left, and response_gen is empty once
\* get_response has run.
C29_FragmentsDeliveredOnce ==
    /\ [](final_response # None =>
            /\ response_gen = <<>>
            /\ full_response # None
            /\ final_response = Some(clean_response(full_response[1])))
    /\ [][delivered' \o NotTakenRaw' = delivered \o NotTakenRaw]_vars

C29_Witness ==
    /\ Len(delivered) = 2
    /\ final_response # None
    /\ full_response # None /\ Len(full_response[1]) >= 2
    /\ response_gen = <<>>
    /\ Len(returned) = 2

====
